---- MODULE Spec2Model ----
(***************************************************************************)
(* A model of electron-settings (lib/settings.js): one JSON document in    *)
(* one file, read and written through dotted key paths.                    *)
(*                                                                         *)
(* JavaScript values are tagged records.  A string is a sequence of        *)
(* one-character strings, so that key paths can be split and joined the    *)
(* way the code does it.  An object is a function from its own keys to     *)
(* values; an array has its elements and its extra (non index) own         *)
(* properties; Fn stands for any function value.                           *)
(***************************************************************************)
EXTENDS Integers, Sequences, FiniteSets, TLC

VARIABLES dirExists, file, libStrict, last, hist

\* The options the store was constructed with; the operations in progress,
\* step by step; the temporary file of each; the I/O failures so far; the
\* document of the save whose write completed last; and the codec at work.
VARIABLES opts, procs, tmp, faults, lastWrite, codec

\* What an in-memory document that is given the same calls holds and
\* answers.
VARIABLES reference

vars == <<dirExists, file, libStrict, last, hist,
          opts, procs, tmp, faults, lastWrite, codec, reference>>

\* the variables of the step by step view
stepVars == <<opts, procs, tmp, faults, lastWrite, codec>>

-----------------------------------------------------------------------------
(* JavaScript values *)

Undef == [t |-> "undef"]
Null == [t |-> "null"]
Fn == [t |-> "fn"]
Bool(b) == [t |-> "bool", b |-> b]
Num(n) == [t |-> "num", n |-> n]
Str(s) == [t |-> "str", s |-> s]
Arr(a) == [t |-> "arr", a |-> a, x |-> <<>>]
Obj(o) == [t |-> "obj", o |-> o]

EmptyObj == Obj(<<>>)

\* the error values an operation can end with
NoError == "none"
TypeError == "TypeError"
SyntaxError == "SyntaxError"

\* v == null in JavaScript: true of null and undefined
IsNullish(v) == v.t \in {"null", "undef"}

\* a truth test that takes every string, the empty one too, for true
Truthy_AnyString(v) ==
    CASE v.t \in {"undef", "null"} -> FALSE
      [] v.t = "bool" -> v.b
      [] v.t = "num" -> v.n # 0
      [] OTHER -> TRUE

\* the truthiness of a value, as `if (v)` tests it
Truthy(v) ==
    CASE v.t \in {"undef", "null"} -> FALSE
      [] v.t = "bool" -> v.b
      [] v.t = "num" -> v.n # 0
      [] v.t = "str" -> v.s # <<>>
      [] OTHER -> TRUE

\* names every object inherits from Object.prototype
InheritedKeys == {<<"toString">>}

\* the array index a property name denotes, -1 when it is not an index
IndexOf(key) == IF key = <<"0">> THEN 0 ELSE -1

\* object.hasOwnProperty(key), for a non-nullish object
HasOwn(object, key) ==
    CASE object.t = "obj" -> key \in DOMAIN object.o
      [] object.t = "arr" ->
            \/ IndexOf(key) >= 0 /\ IndexOf(key) < Len(object.a)
                 /\ object.a[IndexOf(key) + 1] # [t |-> "hole"]
            \/ key \in DOMAIN object.x
      [] object.t = "str" -> IndexOf(key) >= 0 /\ IndexOf(key) < Len(object.s)
      [] OTHER -> FALSE

\* object[key], for a non-nullish object
GetProp(object, key) ==
    IF HasOwn(object, key)
    THEN CASE object.t = "obj" -> object.o[key]
           [] object.t = "arr" ->
                 IF key \in DOMAIN object.x THEN object.x[key]
                 ELSE object.a[IndexOf(key) + 1]
           [] OTHER -> Str(<<object.s[IndexOf(key) + 1]>>)
    ELSE IF key \in InheritedKeys THEN Fn ELSE Undef

\* a function with one more (or one replaced) entry
Put(f, k, v) == [x \in (DOMAIN f) \cup {k} |-> IF x = k THEN v ELSE f[x]]

\* a function without the entry k
Drop(f, k) == [x \in (DOMAIN f) \ {k} |-> f[x]]

Thrown == [t |-> "thrown"]

\* object[key] = v, for a non-nullish object: the object afterwards, or
\* Thrown.  Assigning to a property of a primitive does nothing in sloppy
\* code and throws a TypeError in strict code.
SetProp(object, key, v, strict) ==
    CASE object.t = "obj" -> Obj(Put(object.o, key, v))
      [] object.t = "arr" ->
            IF IndexOf(key) >= 0 /\ IndexOf(key) <= Len(object.a)
            THEN [object EXCEPT !.a =
                    [i \in 1..(IF IndexOf(key) = Len(object.a)
                               THEN Len(object.a) + 1 ELSE Len(object.a)) |->
                        IF i = IndexOf(key) + 1 THEN v ELSE object.a[i]]]
            ELSE [object EXCEPT !.x = Put(object.x, key, v)]
      [] object.t = "fn" -> object
      [] OTHER -> IF strict THEN Thrown ELSE object

\* delete object[key], for a non-nullish object: the object afterwards, or
\* Thrown.  A deleted array element leaves a hole.
DeleteProp(object, key, strict) ==
    CASE object.t = "obj" -> Obj(Drop(object.o, key))
      [] object.t = "arr" ->
            IF key \in DOMAIN object.x
            THEN [object EXCEPT !.x = Drop(object.x, key)]
            ELSE IF IndexOf(key) >= 0 /\ IndexOf(key) < Len(object.a)
            THEN [object EXCEPT !.a[IndexOf(key) + 1] = [t |-> "hole"]]
            ELSE object
      [] object.t = "str" ->
            IF HasOwn(object, key) /\ strict THEN Thrown ELSE object
      [] OTHER -> object

-----------------------------------------------------------------------------
(* key-path-helpers: the accessor the store calls *)

\* segment.replace(/\\\./g, '.')
RECURSIVE Unescape(_)
Unescape(s) ==
    IF s = <<>> THEN <<>>
    ELSE IF Len(s) >= 2 /\ s[1] = "\\" /\ s[2] = "."
    THEN <<".">> \o Unescape(SubSeq(s, 3, Len(s)))
    ELSE <<s[1]>> \o Unescape(Tail(s))

\* the scan of splitKeyPath from position i on, the current segment
\* starting at startIndex (positions count from 1)
RECURSIVE SplitFrom(_, _, _)
SplitFrom(keyPath, i, startIndex) ==
    IF i > Len(keyPath)
    THEN <<Unescape(SubSeq(keyPath, startIndex, Len(keyPath)))>>
    ELSE IF keyPath[i] = "." /\ (i = 1 \/ keyPath[i - 1] # "\\")
    THEN <<Unescape(SubSeq(keyPath, startIndex, i - 1))>>
            \o SplitFrom(keyPath, i + 1, i + 1)
    ELSE SplitFrom(keyPath, i + 1, startIndex)

\* a split on every '.', escaped or not
RECURSIVE SplitEveryDot(_, _, _)
SplitEveryDot(keyPath, i, startIndex) ==
    IF i > Len(keyPath)
    THEN <<SubSeq(keyPath, startIndex, Len(keyPath))>>
    ELSE IF keyPath[i] = "."
    THEN <<SubSeq(keyPath, startIndex, i - 1)>> \o SplitEveryDot(keyPath, i + 1, i + 1)
    ELSE SplitEveryDot(keyPath, i + 1, startIndex)

splitKeyPath_EveryDot(keyPath) == SplitEveryDot(keyPath, 1, 1)

\* the segments of a key path string: split on every '.' that no
\* backslash precedes, then unescape
splitKeyPath(keyPath) == SplitFrom(keyPath, 1, 1)

\* the walk of getValueAtKeyPath: the value, or Thrown when a property of
\* null or undefined is read
RECURSIVE GetWalk(_, _)
GetWalk(object, keys) ==
    IF keys = <<>> THEN object
    ELSE IF IsNullish(object) THEN Thrown
    ELSE LET next == GetProp(object, Head(keys))
         IN IF IsNullish(next) THEN next ELSE GetWalk(next, Tail(keys))

getValueAtKeyPath(object, keyPath) ==
    IF keyPath = <<>> THEN object ELSE GetWalk(object, splitKeyPath(keyPath))

RECURSIVE HasWalk(_, _)
HasWalk(object, keys) ==
    IF keys = <<>> THEN TRUE
    ELSE IF IsNullish(object) \/ ~HasOwn(object, Head(keys)) THEN FALSE
    ELSE HasWalk(GetProp(object, Head(keys)), Tail(keys))

hasKeyPath(object, keyPath) == HasWalk(object, splitKeyPath(keyPath))

\* the object after the in-place walk of setValueAtKeyPath, or Thrown
RECURSIVE SetWalk(_, _, _, _)
SetWalk(object, keys, value, strict) ==
    IF IsNullish(object) THEN Thrown
    ELSE IF Len(keys) = 1 THEN SetProp(object, keys[1], value, strict)
    ELSE LET key == Head(keys)
             made == IF IsNullish(GetProp(object, key))
                     THEN SetProp(object, key, EmptyObj, strict)
                     ELSE object
         IN IF made = Thrown THEN Thrown
            ELSE LET child == SetWalk(GetProp(made, key), Tail(keys), value, strict)
                 IN IF child = Thrown THEN Thrown
                    ELSE IF HasOwn(made, key) /\ made.t \in {"obj", "arr"}
                    THEN SetProp(made, key, child, strict)
                    ELSE made

\* a set that builds the path in an object of its own
setValueAtKeyPath_Replacing(object, keyPath, value, strict) ==
    SetWalk(EmptyObj, splitKeyPath(keyPath), value, strict)

setValueAtKeyPath(object, keyPath, value, strict) ==
    SetWalk(object, splitKeyPath(keyPath), value, strict)

\* the object after the in-place walk of deleteValueAtKeyPath, or Thrown
RECURSIVE DeleteWalk(_, _, _)
DeleteWalk(object, keys, strict) ==
    IF IsNullish(object) THEN Thrown
    ELSE IF Len(keys) = 1 THEN DeleteProp(object, keys[1], strict)
    ELSE LET key == Head(keys)
             next == GetProp(object, key)
         IN IF IsNullish(next) THEN object
            ELSE LET child == DeleteWalk(next, Tail(keys), strict)
                 IN IF child = Thrown THEN Thrown
                    ELSE IF HasOwn(object, key) /\ object.t \in {"obj", "arr"}
                    THEN SetProp(object, key, child, strict)
                    ELSE object

\* a delete that removes the first key of the path with all it holds
deleteValueAtKeyPath_Pruning(object, keyPath, strict) ==
    DeleteWalk(object, <<Head(splitKeyPath(keyPath))>>, strict)

deleteValueAtKeyPath(object, keyPath, strict) ==
    DeleteWalk(object, splitKeyPath(keyPath), strict)

-----------------------------------------------------------------------------
(* key path arguments *)

\* Array.prototype.join('.') of a sequence of strings
RECURSIVE JoinDot(_)
JoinDot(strs) ==
    IF strs = <<>> THEN <<>>
    ELSE IF Len(strs) = 1 THEN strs[1]
    ELSE strs[1] \o <<".">> \o JoinDot(Tail(strs))

\* Array.prototype.join('') of a sequence of strings
RECURSIVE JoinNothing(_)
JoinNothing(strs) ==
    IF strs = <<>> THEN <<>> ELSE strs[1] \o JoinNothing(Tail(strs))

\* a flattening that joins without the delimiter
RECURSIVE flattenKeyPath_NoDot(_)
flattenKeyPath_NoDot(keyPath) ==
    IF keyPath.t = "arr"
    THEN JoinNothing([i \in 1..Len(keyPath.a) |-> flattenKeyPath_NoDot(keyPath.a[i])])
    ELSE keyPath.s

\* the string a valid key path flattens to (a sequence of characters)
RECURSIVE flattenKeyPath(_)
flattenKeyPath(keyPath) ==
    IF keyPath.t = "arr"
    THEN JoinDot([i \in 1..Len(keyPath.a) |-> flattenKeyPath(keyPath.a[i])])
    ELSE keyPath.s

\* a check that looks at the kind of the elements only
isKeyPath_Shallow(keyPath) ==
    \/ keyPath.t = "str"
    \/ /\ keyPath.t = "arr"
       /\ Len(keyPath.a) > 0
       /\ \A i \in 1..Len(keyPath.a) : keyPath.a[i].t \in {"str", "arr"}

\* whether isKeyPath returns a truthy value; for the empty array the loop
\* body never runs and the function returns undefined
RECURSIVE isKeyPath(_)
isKeyPath(keyPath) ==
    IF keyPath.t = "str" THEN TRUE
    ELSE IF keyPath.t = "arr"
    THEN /\ Len(keyPath.a) > 0
         /\ \A i \in 1..Len(keyPath.a) : isKeyPath(keyPath.a[i])
    ELSE FALSE

-----------------------------------------------------------------------------
(* the codec *)

\* what JSON.stringify keeps of a value: properties holding undefined or
\* a function are left out, array elements holding them (and holes) become
\* null, and the non-index properties of an array are left out
\* an object that holds itself
Circular == [t |-> "circular"]

\* JSON.stringify throws a TypeError on a value that holds a circular
\* structure
RECURSIVE StringifyThrows(_)
StringifyThrows(v) ==
    CASE v.t = "circular" -> TRUE
      [] v.t = "obj" -> \E k \in DOMAIN v.o : StringifyThrows(v.o[k])
      [] v.t = "arr" -> \E i \in 1..Len(v.a) : StringifyThrows(v.a[i])
      [] OTHER -> FALSE

RECURSIVE ToJSON(_)
ToJSON(v) ==
    CASE v.t = "obj" ->
            Obj([k \in {k \in DOMAIN v.o : v.o[k].t \notin {"undef", "fn"}} |->
                    ToJSON(v.o[k])])
      [] v.t = "arr" ->
            Arr([i \in 1..Len(v.a) |->
                    IF v.a[i].t \in {"undef", "fn", "hole"} THEN Null
                    ELSE ToJSON(v.a[i])])
      [] OTHER -> v

\* the configuration of the store: lib/defaults.js, which the test suite
\* pins down (atomic save on, no prettifying, two spaces, no encryption,
\* no directory, the file name settings.json)
defaults ==
    [atomicSave |-> TRUE, prettify |-> FALSE, numSpaces |-> 2,
     encryptionKey |-> "none",
     dir |-> [t |-> "undef"], fileName |-> [t |-> "str", s |-> <<"settings.json">>]]

\* { ...defaults, ...opts }: an option given replaces the default
_config ==
    [k \in DOMAIN defaults |-> IF k \in DOMAIN opts THEN opts[k] ELSE defaults[k]]

\* the content of a file that holds no JSON text
Garbage == [kind |-> "garbage"]

\* the file that does not exist
NoFile == [kind |-> "absent"]

\* the error of a decipher that does not fit its input
DecryptError == "bad decrypt"

\* an encryption that leaves the text as it is
_encryptData_Plain(data) == data

\* the bytes the cipher makes of a text under the configured key
_encryptData(data) ==
    [kind |-> "cipher", key |-> _config.encryptionKey, plain |-> data]

\* the text the decipher makes of bytes, or Thrown: bytes that are not a
\* ciphertext made under the configured key fail the final block
_decryptData(buffer) ==
    IF buffer.kind = "cipher" /\ buffer.key = _config.encryptionKey
    THEN buffer.plain
    ELSE Thrown

\* the text JSON.stringify(obj, null, numSpaces) produces (the JSON value
\* it denotes and its indentation), encrypted when a key is configured,
\* or Thrown.  (The documents saved here are never undefined: see SetArgs.)
_prepareSettingsData(obj) ==
    LET data == [kind |-> "json", json |-> ToJSON(obj),
                 indent |-> IF _config.prettify THEN _config.numSpaces ELSE 0]
    IN IF StringifyThrows(obj) THEN Thrown
       ELSE IF _config.encryptionKey # "none" THEN _encryptData(data)
       ELSE data

\* the content decrypted when a key is configured
Decrypted(data) ==
    IF _config.encryptionKey # "none" THEN _decryptData(data) ELSE data

\* a decoder that takes content it cannot decode for the empty object
_reconstructSettingsData_Lenient(data) ==
    IF Decrypted(data) # Thrown /\ Decrypted(data).kind = "json"
    THEN Decrypted(data).json
    ELSE EmptyObj

\* JSON.parse of the (decrypted) content: the value, or Thrown
_reconstructSettingsData(data) ==
    IF Decrypted(data) # Thrown /\ Decrypted(data).kind = "json"
    THEN Decrypted(data).json
    ELSE Thrown

\* the error _reconstructSettingsData throws on content it cannot decode:
\* that of the decipher, or the SyntaxError of JSON.parse
DecodeError(data) ==
    IF Decrypted(data) = Thrown THEN DecryptError ELSE SyntaxError

-----------------------------------------------------------------------------
(* the store, blocking form.  A file system state is [dir, file]; every   *)
(* step yields the file system afterwards, the error it ended with, its   *)
(* value, and the documents it saved, in order.                            *)

Outcome(fs, err, val, saves) ==
    [dir |-> fs.dir, file |-> fs.file, err |-> err, val |-> val, saves |-> saves]

\* statSync finds the directory, or mkdirp.sync creates it
_ensureSettingsDirSync(fs) == [fs EXCEPT !.dir = TRUE]

\* the directory is ensured, then the data replaces the file's content
_writeSettingsFileSync(fs, data) ==
    [_ensureSettingsDirSync(fs) EXCEPT !.file = data]

\* the document is encoded, then written; an encoding that throws ends
\* the save before the directory is looked for
_saveSettingsSync(fs, obj) ==
    IF _prepareSettingsData(obj) = Thrown
    THEN Outcome(fs, TypeError, Undef, <<obj>>)
    ELSE Outcome(_writeSettingsFileSync(fs, _prepareSettingsData(obj)),
                 NoError, Undef, <<obj>>)

\* an ensure that saves the empty object whether or not the file exists
_ensureSettingsFileSync_Always(fs) == _saveSettingsSync(fs, EmptyObj)

\* an ensure that never creates the file
_ensureSettingsFileSync_Never(fs) == Outcome(fs, NoError, Undef, <<>>)

\* statSync of the file fails with ENOENT when the file (or its directory)
\* does not exist: an empty object is saved
_ensureSettingsFileSync(fs) ==
    IF ~fs.dir \/ fs.file = NoFile
    THEN _saveSettingsSync(fs, EmptyObj)
    ELSE Outcome(fs, NoError, Undef, <<>>)

\* a read that hands out a fresh object instead of the file's content
_readSettingsFileSync_Blank(fs) == EmptyObj

_readSettingsFileSync(fs) == _reconstructSettingsData(fs.file)

\* val is the loaded document
\* a load that takes every file for one that holds the empty object
_loadSettingsSync_Empty(fs) ==
    [_ensureSettingsFileSync(fs) EXCEPT !.val = EmptyObj]

_loadSettingsSync(fs) ==
    LET ensured == _ensureSettingsFileSync(fs)
        obj == _readSettingsFileSync(ensured)
    IN IF obj = Thrown
       THEN [ensured EXCEPT !.err = DecodeError(ensured.file)]
       ELSE [ensured EXCEPT !.val = obj]

\* a get that returns the whole document whatever the key path
_getValueAtKeyPathSync_Whole(fs, keyPath) == _loadSettingsSync(fs)

\* keyPath is a string value, or Null when no key path was given
_getValueAtKeyPathSync(fs, keyPath) ==
    LET loaded == _loadSettingsSync(fs)
    IN IF loaded.err # NoError THEN loaded
       ELSE IF Truthy(keyPath)
       THEN LET val == getValueAtKeyPath(loaded.val, keyPath.s)
            IN IF val = Thrown
               THEN [loaded EXCEPT !.err = TypeError, !.val = Undef]
               ELSE [loaded EXCEPT !.val = val]
       ELSE loaded

\* a has that tests the value found instead of the presence of the key
_hasKeyPathSync_Truthy(fs, keyPath) ==
    LET loaded == _loadSettingsSync(fs)
    IN IF loaded.err # NoError THEN loaded
       ELSE LET val == getValueAtKeyPath(loaded.val, keyPath.s)
            IN IF val = Thrown
               THEN [loaded EXCEPT !.err = TypeError, !.val = Undef]
               ELSE [loaded EXCEPT !.val = Bool(Truthy(val))]

_hasKeyPathSync(fs, keyPath) ==
    LET loaded == _loadSettingsSync(fs)
    IN IF loaded.err # NoError THEN loaded
       ELSE [loaded EXCEPT !.val = Bool(hasKeyPath(loaded.val, keyPath.s))]

\* a save that follows a load: the saves of both, in order
SaveAfter(loaded, obj) ==
    LET saved == _saveSettingsSync([dir |-> loaded.dir, file |-> loaded.file], obj)
    IN [saved EXCEPT !.saves = loaded.saves \o saved.saves]

\* a set that changes the loaded document and never saves it
_setValueAtKeyPathSync_Unsaved(fs, keyPath, val, strict) ==
    IF Truthy(keyPath)
    THEN LET loaded == _loadSettingsSync(fs)
         IN IF loaded.err # NoError THEN loaded
            ELSE IF setValueAtKeyPath(loaded.val, keyPath.s, val, strict) = Thrown
            THEN [loaded EXCEPT !.err = TypeError, !.val = Undef]
            ELSE [loaded EXCEPT !.val = Undef]
    ELSE _saveSettingsSync(fs, val)

_setValueAtKeyPathSync(fs, keyPath, val, strict) ==
    IF Truthy(keyPath)
    THEN LET loaded == _loadSettingsSync(fs)
         IN IF loaded.err # NoError THEN loaded
            ELSE LET obj == setValueAtKeyPath(loaded.val, keyPath.s, val, strict)
                 IN IF obj = Thrown
                    THEN [loaded EXCEPT !.err = TypeError, !.val = Undef]
                    ELSE SaveAfter(loaded, obj)
    ELSE _saveSettingsSync(fs, val)

\* a delete that changes the loaded document and never saves it
_deleteValueAtKeyPathSync_Unsaved(fs, keyPath, strict) ==
    LET loaded == _loadSettingsSync(fs)
    IN IF loaded.err # NoError THEN loaded
       ELSE IF deleteValueAtKeyPath(loaded.val, keyPath.s, strict) = Thrown
       THEN [loaded EXCEPT !.err = TypeError, !.val = Undef]
       ELSE [loaded EXCEPT !.val = Undef]

_deleteValueAtKeyPathSync(fs, keyPath, strict) ==
    LET loaded == _loadSettingsSync(fs)
    IN IF loaded.err # NoError THEN loaded
       ELSE LET obj == deleteValueAtKeyPath(loaded.val, keyPath.s, strict)
            IN IF obj = Thrown
               THEN [loaded EXCEPT !.err = TypeError, !.val = Undef]
               ELSE SaveAfter(loaded, obj)

-----------------------------------------------------------------------------
(* the public operations, blocking form; args is the argument list *)

\* args[i], counting from 0 as the code does; undefined past the end
Arg(args, i) == IF i < Len(args) THEN args[i + 1] ELSE Undef

getSync(fs, args) ==
    IF isKeyPath(Arg(args, 0))
    THEN _getValueAtKeyPathSync(fs, Str(flattenKeyPath(Arg(args, 0))))
    ELSE _getValueAtKeyPathSync(fs, Null)

hasSync(fs, args) ==
    IF isKeyPath(Arg(args, 0))
    THEN _hasKeyPathSync(fs, Str(flattenKeyPath(Arg(args, 0))))
    ELSE Outcome(fs, TypeError, Undef, <<>>)

\* a set that, given no key path, forgets to shift its arguments and takes
\* the value from the second one
setSync_Unshifted(fs, args, strict) ==
    IF isKeyPath(Arg(args, 0))
    THEN _setValueAtKeyPathSync(fs, Str(flattenKeyPath(Arg(args, 0))),
                                Arg(args, 1), strict)
    ELSE _setValueAtKeyPathSync(fs, Null, Arg(args, 1), strict)

setSync(fs, args, strict) ==
    IF isKeyPath(Arg(args, 0))
    THEN _setValueAtKeyPathSync(fs, Str(flattenKeyPath(Arg(args, 0))),
                                Arg(args, 1), strict)
    ELSE _setValueAtKeyPathSync(fs, Null, Arg(args, 0), strict)

deleteSync(fs, args, strict) ==
    IF isKeyPath(Arg(args, 0))
    THEN _deleteValueAtKeyPathSync(fs, Str(flattenKeyPath(Arg(args, 0))), strict)
    ELSE Outcome(fs, TypeError, Undef, <<>>)

-----------------------------------------------------------------------------
(* the inputs of the model *)

S(str) == Str(str)

\* key path arguments: plain, dotted, escaped, empty, through an array
\* index, an inherited name, an array and a nested array
KeyPathArgs ==
    {S(<<"a">>), S(<<"a", ".", "b">>), S(<<"a", "\\", ".", "b">>), S(<<>>),
     S(<<"a", ".", "0">>), S(<<"toString">>),
     Arr(<<S(<<"a">>), S(<<"b">>)>>), Arr(<<Arr(<<S(<<"a">>)>>), S(<<"b">>)>>),
     Arr(<<S(<<>>)>>)}

\* arguments that are not key paths
NonKeyPathArgs == {Null, Num(1), EmptyObj, Arr(<<>>), Arr(<<S(<<"a">>), Num(1)>>)}

\* the JSON values written
Values ==
    {Null, Bool(FALSE), Num(0), Num(1), S(<<>>), S(<<"b">>), EmptyObj,
     Obj(<<"b">> :> Num(1)), Obj(<<"a">> :> Null @@ <<"b">> :> Num(1)),
     Obj(<<"a", ".", "b">> :> Num(1)),
     Arr(<<>>), Arr(<<Num(1)>>)}

\* what somebody else may put into the settings file
ExternalContents ==
    {Garbage,
     [kind |-> "json", json |-> Obj(<<"a">> :> Obj(<<"b">> :> S(<<"b">>))), indent |-> 2],
     [kind |-> "json", json |-> Obj(<<"a", ".", "b">> :> Num(1)), indent |-> 0]}

\* the argument lists of get
GetArgs == {<<>>} \cup {<<k>> : k \in KeyPathArgs \cup NonKeyPathArgs}

\* the argument lists of has and delete
PathArgs == {<<>>} \cup {<<k>> : k \in KeyPathArgs \cup NonKeyPathArgs}

\* the argument lists of set: a key path and a value, or a value alone.
\* A value alone that is a string or an array of strings is taken for a
\* key path; the empty string alone is left out, as it would have the
\* store save undefined.
SetArgs ==
    {<<k, v>> : k \in KeyPathArgs, v \in Values}
        \cup {<<v>> : v \in Values \ {S(<<>>)}}
        \cup {<<k>> : k \in {k \in KeyPathArgs : flattenKeyPath(k) # <<>>}}

\* the nodes of a value: a bound keeps the stored document small
RECURSIVE Size(_)
RECURSIVE SumSizes(_, _)
SumSizes(f, keys) ==
    IF keys = {} THEN 0
    ELSE LET k == CHOOSE k \in keys : TRUE
         IN Size(f[k]) + SumSizes(f, keys \ {k})
Size(v) ==
    CASE v.t = "obj" -> 1 + SumSizes(v.o, DOMAIN v.o)
      [] v.t = "arr" -> 1 + SumSizes(v.a, DOMAIN v.a)
      [] OTHER -> 1

MaxSize == 4

FileSize(f) == IF f.kind = "json" THEN Size(f.json) ELSE 0

-------------------------------------------------------------------------------------------------------------------------------------------------
(* The state machine: the file system, and the call that just ran with its *)
(* outcome.  A call runs when no outcome is pending; Return hands the      *)
(* outcome to the caller, and the store keeps nothing of it.               *)

FS == [dir |-> dirExists, file |-> file]

NoCall ==
    [op |-> "none", args |-> <<>>, err |-> NoError, val |-> Undef,
     saves |-> <<>>, before |-> [dir |-> FALSE, file |-> NoFile],
     changed |-> FALSE]

\* changed: somebody else wrote the file after the store's previous call
Call(op, args, out) ==
    [op |-> op, args |-> args, err |-> out.err,
     val |-> IF out.err = NoError THEN out.val ELSE Undef,
     saves |-> out.saves, before |-> FS, changed |-> (hist = "changed")]

\* hist is "fresh" until the store's first call, "used" after a call of the
\* store, and "changed" once somebody else has touched the file since
Applied(op, args, out) ==
    /\ last = NoCall
    /\ FileSize(out.file) <= MaxSize
    /\ dirExists' = out.dir
    /\ file' = out.file
    /\ last' = Call(op, args, out)
    /\ hist' = IF op # "external" THEN "used"
               ELSE IF hist = "fresh" THEN "fresh" ELSE "changed"
    /\ UNCHANGED libStrict
    /\ UNCHANGED stepVars

\* a call with nothing kept beside the store
Apply(op, args, out) == Applied(op, args, out) /\ UNCHANGED reference

\* no document is kept beside the store
NoReference == <<>>

\* no options given, no operation in progress, no codec at work
AtRest ==
    /\ opts = <<>>
    /\ procs = <<>>
    /\ tmp = <<>>
    /\ faults = 0
    /\ lastWrite = Undef
    /\ codec = <<>>
    /\ reference = NoReference

Init ==
    /\ dirExists \in BOOLEAN
    /\ file = NoFile
    /\ libStrict \in BOOLEAN
    /\ last = NoCall
    /\ hist = "fresh"
    /\ AtRest

GetSync == \E args \in GetArgs : Apply("get", args, getSync(FS, args))

HasSync == \E args \in PathArgs : Apply("has", args, hasSync(FS, args))

SetSync == \E args \in SetArgs : Apply("set", args, setSync(FS, args, libStrict))

DeleteSync == \E args \in PathArgs : Apply("delete", args, deleteSync(FS, args, libStrict))

\* somebody else writes the settings file
ExternalWrite ==
    \E c \in ExternalContents :
        Apply("external", <<>>, Outcome([dir |-> TRUE, file |-> c], NoError, Undef, <<>>))

\* somebody else removes the settings file
ExternalRemove ==
    /\ file # NoFile
    /\ Apply("external", <<>>, Outcome([dir |-> TRUE, file |-> NoFile], NoError, Undef, <<>>))

\* the call returns to its caller
Return ==
    /\ last # NoCall
    /\ last' = NoCall
    /\ UNCHANGED <<dirExists, file, libStrict, hist>>
    /\ UNCHANGED <<stepVars, reference>>

Next ==
    \/ GetSync \/ HasSync \/ SetSync \/ DeleteSync
    \/ ExternalWrite \/ ExternalRemove \/ Return

Spec == Init /\ [][Next]_vars

TypeOK ==
    /\ dirExists \in BOOLEAN
    /\ file.kind \in {"absent", "json", "garbage"}
    /\ (~dirExists => file = NoFile)

-----------------------------------------------------------------------------
(* notions the properties are stated with *)

\* the segments a key path argument addresses
Keys(arg) == splitKeyPath(flattenKeyPath(arg))

\* the document a file system state stores; a missing file counts as the
\* empty object the first load creates
DocOf(fs) == IF fs.file.kind = "json" THEN fs.file.json ELSE EmptyObj

Decodable(fs) == fs.file.kind # "garbage"

\* the last call had a valid key path as its first argument
KeyPathCall == Len(last.args) >= 1 /\ isKeyPath(last.args[1])

Completed == last.err = NoError

\* the JSON value found at a path of a JSON document, key by key: the keys
\* of an object, the indices of an array, the character positions of a
\* string; Undef where the path leads nowhere
RECURSIVE Lookup(_, _)
Lookup(doc, keys) ==
    IF keys = <<>> THEN doc
    ELSE LET k == Head(keys)
         IN CASE doc.t = "obj" /\ k \in DOMAIN doc.o -> Lookup(doc.o[k], Tail(keys))
              [] doc.t = "arr" /\ IndexOf(k) >= 0 /\ IndexOf(k) < Len(doc.a) ->
                    Lookup(doc.a[IndexOf(k) + 1], Tail(keys))
              [] doc.t = "str" /\ IndexOf(k) >= 0 /\ IndexOf(k) < Len(doc.s) ->
                    Lookup(Str(<<doc.s[IndexOf(k) + 1]>>), Tail(keys))
              [] OTHER -> Undef

\* the path is present in the document: every segment is a key of the
\* value the segments before it lead to
Present(doc, keys) == Lookup(doc, keys) # Undef

\* some proper prefix of the path holds null
NullPrefix(doc, keys) ==
    \E n \in 1..(Len(keys) - 1) : Lookup(doc, SubSeq(keys, 1, n)) = Null

\* the walk along the proper prefixes of the path meets objects only:
\* the document is an object, and each further prefix is an object, holds
\* null, or is missing under a name that is not inherited
RECURSIVE ThroughObjects(_, _)
ThroughObjects(doc, keys) ==
    /\ doc.t = "obj"
    /\ \/ Len(keys) = 1
       \/ IF Head(keys) \in DOMAIN doc.o
          THEN \/ doc.o[Head(keys)] = Null
               \/ ThroughObjects(doc.o[Head(keys)], Tail(keys))
          ELSE Head(keys) \notin InheritedKeys

\* no segment of the key path names a member that objects inherit
OwnNames(arg) == \A i \in 1..Len(Keys(arg)) : Keys(arg)[i] \notin InheritedKeys

\* the set of the last call is one the round trip is claimed for: the whole
\* document is replaced (empty path), or the walk meets objects only and
\* no segment names an inherited member
PlainSet ==
    \/ flattenKeyPath(last.args[1]) = <<>>
    \/ /\ ThroughObjects(DocOf(last.before), Keys(last.args[1]))
       /\ OwnNames(last.args[1])

-----------------------------------------------------------------------------
(* C1 *)

\* what get with the key path of the last call returns now
GetAgain == getSync(FS, <<last.args[1]>>)

-----------------------------------------------------------------------------
(* C2 *)

\* the last call read (get or has) a key path its document does not hold
AbsentRead ==
    /\ last.op \in {"get", "has"} /\ KeyPathCall /\ Decodable(last.before)
    /\ ~Present(DocOf(last.before), Keys(last.args[1]))

\* C2 as stated: for every key path that is not present, has yields false
\* and get yields undefined, without error.
C2_AbsentReadsNothingAnyPath ==
    AbsentRead =>
        /\ Completed
        /\ last.val = IF last.op = "has" THEN Bool(FALSE) ELSE Undef

\* C2 amended: for every non-empty key path that is not present and has no
\* segment naming an inherited member, has yields false without error; get,
\* when the stored document is not null, yields without error undefined, or
\* null when a proper prefix of the path holds null.
C2_AbsentReadsNothing ==
    (/\ AbsentRead
     /\ flattenKeyPath(last.args[1]) # <<>>
     /\ OwnNames(last.args[1]))
        => IF last.op = "has"
           THEN Completed /\ last.val = Bool(FALSE)
           ELSE DocOf(last.before) # Null =>
                   /\ Completed
                   /\ last.val = IF NullPrefix(DocOf(last.before), Keys(last.args[1]))
                                 THEN Null ELSE Undef

\* get ran on a path whose intermediate segment is missing and found nothing
C2_Witness ==
    /\ AbsentRead /\ last.op = "get" /\ Completed /\ last.val = Undef
    /\ Len(Keys(last.args[1])) = 2
    /\ ~Present(DocOf(last.before), <<Keys(last.args[1])[1]>>)
    /\ DocOf(last.before) # EmptyObj

-----------------------------------------------------------------------------
(* C3 *)

\* what has with the key path of the last call returns now
HasAgain == hasSync(FS, <<last.args[1]>>)

DeleteCall == last.op = "delete" /\ KeyPathCall /\ Decodable(last.before)

\* the value that holds the last segment of the path
ParentOf(doc, keys) == Lookup(doc, SubSeq(keys, 1, Len(keys) - 1))

\* C3 as stated: for every key path and every stored document, a completed
\* delete(p) followed at once by has(p) yields false, and deleting a path
\* that is not there completes without error.
C3_DeleteThenHasAnyDocument ==
    DeleteCall =>
        /\ Completed => (HasAgain.err = NoError /\ HasAgain.val = Bool(FALSE))
        /\ ~Present(DocOf(last.before), Keys(last.args[1])) => Completed

\* C3 amended: a completed delete(p) followed at once by has(p) yields false
\* unless the value that holds the last segment of p is an array or a
\* string, and deleting a path that is not there completes without error
\* when the stored document is not null.
C3_DeleteThenHas ==
    DeleteCall =>
        /\ (/\ Completed
            /\ ParentOf(DocOf(last.before), Keys(last.args[1])).t \notin {"arr", "str"})
              => (HasAgain.err = NoError /\ HasAgain.val = Bool(FALSE))
        /\ (/\ ~Present(DocOf(last.before), Keys(last.args[1]))
            /\ DocOf(last.before) # Null)
              => Completed

\* a nested key that was there has been deleted, and has no longer finds it
C3_Witness ==
    /\ DeleteCall /\ Completed
    /\ Len(Keys(last.args[1])) = 2
    /\ Present(DocOf(last.before), Keys(last.args[1]))
    /\ HasAgain.val = Bool(FALSE)
    /\ Present(DocOf(FS), <<Keys(last.args[1])[1]>>)

-----------------------------------------------------------------------------
(* C4 *)

\* what get without a key path returns now
GetAll == getSync(FS, <<>>)

\* C4 as stated: get without a key path returns the whole stored document,
\* and set(v) with any JSON value v makes v the whole stored document.
C4_WholeDocumentAnyValue ==
    /\ (last.op = "get" /\ last.args = <<>> /\ Decodable(last.before))
          => (Completed /\ last.val = DocOf(last.before))
    /\ (last.op = "set" /\ Len(last.args) = 1)
          => (Completed /\ GetAll.err = NoError /\ GetAll.val = last.args[1])

\* C4 amended: get without a key path returns the whole stored document,
\* and set(v) makes v the whole stored document for every JSON value v that
\* is not itself a valid key path (not a string, and not a non-empty array
\* of key paths): an object, a number, a boolean, null, the empty array or
\* an array with an element that is not a key path.
C4_WholeDocument ==
    /\ (last.op = "get" /\ last.args = <<>> /\ Decodable(last.before))
          => (Completed /\ last.val = DocOf(last.before))
    /\ (last.op = "set" /\ Len(last.args) = 1 /\ ~isKeyPath(last.args[1]))
          => /\ Completed /\ GetAll.err = NoError /\ GetAll.val = last.args[1]
             /\ file = _prepareSettingsData(last.args[1])

\* an array replaced a stored object that had keys
C4_Witness ==
    /\ last.op = "set" /\ Len(last.args) = 1 /\ Completed
    /\ last.args[1] = Arr(<<Num(1)>>)
    /\ DocOf(last.before).t = "obj" /\ DOMAIN DocOf(last.before).o # {}
    /\ GetAll.val = Arr(<<Num(1)>>)

-----------------------------------------------------------------------------
(* C5 *)

FalsyValues == {Null, Bool(FALSE), Num(0), S(<<>>)}

\* C5 as stated: has(p) is true exactly when p is present, whatever value
\* it holds, and after set(p, v) with v null, false, 0 or '' has(p) is true.
C5_HasCountsFalsyAnyPath ==
    /\ (last.op = "has" /\ KeyPathCall /\ Decodable(last.before))
          => /\ Completed
             /\ last.val = Bool(Present(DocOf(last.before), Keys(last.args[1])))
    /\ (last.op = "set" /\ Completed /\ Len(last.args) = 2 /\ KeyPathCall
          /\ last.args[2] \in FalsyValues)
          => (HasAgain.err = NoError /\ HasAgain.val = Bool(TRUE))

\* C5 amended: has(p) is true exactly when p is present, whatever value it
\* holds; after a completed set(p, v) with v null, false, 0 or '', where p
\* does not flatten to the empty string and names no inherited member, the
\* stored document is an object and every proper prefix of p is missing,
\* holds null or holds an object, has(p) is true.
C5_HasCountsFalsy ==
    /\ (last.op = "has" /\ KeyPathCall /\ Decodable(last.before))
          => /\ Completed
             /\ last.val = Bool(Present(DocOf(last.before), Keys(last.args[1])))
    /\ (last.op = "set" /\ Completed /\ Len(last.args) = 2 /\ KeyPathCall
          /\ last.args[2] \in FalsyValues
          /\ flattenKeyPath(last.args[1]) # <<>>
          /\ OwnNames(last.args[1])
          /\ ThroughObjects(DocOf(last.before), Keys(last.args[1])))
          => (HasAgain.err = NoError /\ HasAgain.val = Bool(TRUE))

\* has found a key that holds null
C5_Witness ==
    /\ last.op = "has" /\ KeyPathCall /\ Completed
    /\ last.val = Bool(TRUE)
    /\ Lookup(DocOf(last.before), Keys(last.args[1])) = Null

-----------------------------------------------------------------------------
(* C6 *)

EscapedPath == S(<<"a", "\\", ".", "b">>)
DottedPath == S(<<"a", ".", "b">>)

\* the one key named "a.b"
DotKey == <<"a", ".", "b">>

SetOf(path) == last.op = "set" /\ Completed /\ Len(last.args) = 2 /\ last.args[1] = path

ReadOf(path) ==
    last.op \in {"get", "has"} /\ last.args = <<path>> /\ Decodable(last.before)

-----------------------------------------------------------------------------
(* C7 *)

\* the strings of an array key path, left to right
RECURSIVE Leaves(_)
Leaves(keyPath) ==
    IF keyPath.t = "arr"
    THEN IF keyPath.a = <<>> THEN <<>>
         ELSE Leaves(Head(keyPath.a)) \o Leaves(Arr(Tail(keyPath.a)))
    ELSE <<keyPath.s>>

\* the dotted string of an array key path
Dotted(keyPath) == Str(JoinDot(Leaves(keyPath)))

\* array key paths of several shapes
ArrayKeyPaths ==
    {Arr(<<S(<<"a">>), S(<<"b">>)>>),
     Arr(<<Arr(<<S(<<"a">>)>>), S(<<"b">>)>>),
     Arr(<<Arr(<<S(<<"a">>)>>), Arr(<<S(<<"b">>)>>)>>),
     Arr(<<Arr(<<S(<<"a">>), S(<<"b">>)>>), S(<<"0">>)>>),
     Arr(<<S(<<"a">>), Arr(<<S(<<"b">>), S(<<"0">>)>>)>>),
     Arr(<<S(<<"a", "\\", ".", "b">>)>>),
     Arr(<<S(<<"a", ".", "b">>), S(<<"b">>)>>),
     Arr(<<S(<<>>)>>)}

\* the outcome of an operation on a file system state
Run(op, fs, args) ==
    CASE op = "get" -> getSync(fs, args)
      [] op = "has" -> hasSync(fs, args)
      [] op = "set" -> setSync(fs, args, libStrict)
      [] op = "delete" -> deleteSync(fs, args, libStrict)

\* the argument list with its first argument replaced
WithPath(args, path) == <<path>> \o Tail(args)

\* C7: an array or nested array key path is equivalent to the dotted string
\* of its strings, for get, has, set and delete: same result, same error,
\* same saves, same file afterwards.
C7_ArrayPathIsDottedString ==
    /\ (last.op \in {"get", "has", "set", "delete"} /\ KeyPathCall
          /\ last.args[1].t = "arr")
          => LET out == Run(last.op, last.before, WithPath(last.args, Dotted(last.args[1])))
             IN /\ out.file = file /\ out.dir = dirExists
                /\ out.err = last.err /\ out.saves = last.saves
                /\ (Completed => out.val = last.val)
    /\ last = NoCall =>
          \A k \in ArrayKeyPaths :
              /\ \A op \in {"get", "has", "delete"} :
                    Run(op, FS, <<k>>) = Run(op, FS, <<Dotted(k)>>)
              /\ \A v \in Values :
                    Run("set", FS, <<k, v>>) = Run("set", FS, <<Dotted(k), v>>)

\* a set through a nested array path has stored its value under a.b
C7_Witness ==
    /\ last.op = "set" /\ Completed /\ Len(last.args) = 2
    /\ last.args[1] = Arr(<<Arr(<<S(<<"a">>)>>), S(<<"b">>)>>)
    /\ Dotted(last.args[1]) = DottedPath
    /\ Lookup(DocOf(FS), <<<<"a">>, <<"b">>>>) = Num(1)
    /\ Present(DocOf(last.before), <<DotKey>>)

-----------------------------------------------------------------------------
(* C8 *)

\* the key path [p, k]: the field k of what p addresses
Field(p, k) == Arr(<<p, Str(k)>>)

ObjectSet ==
    /\ last.op = "set" /\ Completed /\ Len(last.args) = 2 /\ KeyPathCall
    /\ last.args[2].t = "obj"

FieldReadsBack(k) ==
        /\ getSync(FS, <<Field(last.args[1], k)>>).err = NoError
        /\ getSync(FS, <<Field(last.args[1], k)>>).val = last.args[2].o[k]
        /\ hasSync(FS, <<Field(last.args[1], k)>>).val = Bool(TRUE)

FieldsReadBack == \A k \in DOMAIN last.args[2].o : FieldReadsBack(k)

\* the name holds no delimiter
Undotted(k) == \A i \in 1..Len(k) : k[i] # "."

\* C8 as stated: after set(p, obj) with obj an object, get(p.k) returns
\* obj[k] and has(p.k) is true, for every key k of obj.
C8_ObjectFieldsAnyPath == ObjectSet => FieldsReadBack

\* C8 amended: after a completed set(p, obj) with obj an object, where p
\* does not flatten to the empty string and names no inherited member, the
\* stored document is an object and every proper prefix of p is missing,
\* holds null or holds an object, get(p.k) returns obj[k] and has(p.k) is
\* true, for every key k of obj that holds no delimiter.
C8_ObjectFields ==
    (/\ ObjectSet
     /\ flattenKeyPath(last.args[1]) # <<>>
     /\ OwnNames(last.args[1])
     /\ ThroughObjects(DocOf(last.before), Keys(last.args[1])))
        => \A k \in DOMAIN last.args[2].o : Undotted(k) => FieldReadsBack(k)

\* the demo: an object with two fields was set under one key of a fresh
\* store, and its fields read back
C8_Witness ==
    /\ ObjectSet /\ FieldsReadBack
    /\ last.before.file = NoFile
    /\ last.args = <<S(<<"a">>), Obj(<<"a">> :> Null @@ <<"b">> :> Num(1))>>
    /\ getSync(FS, <<S(<<"a", ".", "b">>)>>).val = Num(1)

-----------------------------------------------------------------------------
(* C9 *)

\* the last call read (get or has) a file that exists and holds JSON text
ReadOfFile ==
    /\ last.op \in {"get", "has"}
    /\ last.before.dir /\ last.before.file.kind = "json"

\* C9: every get and has returns what the file holds when the call reads
\* it, so what somebody else wrote since the previous call is observed: get
\* without a key path returns the document the file holds, has tells
\* whether the file's document has the key path, get returns the value the
\* file's document holds there.
C9_ReadsTheFile ==
    ReadOfFile =>
        /\ file = last.before.file
        /\ last.args = <<>> /\ last.op = "get" =>
              (Completed /\ last.val = last.before.file.json)
        /\ KeyPathCall /\ last.op = "has" =>
              /\ Completed
              /\ last.val = Bool(Present(last.before.file.json, Keys(last.args[1])))
        /\ (KeyPathCall /\ last.op = "get" /\ flattenKeyPath(last.args[1]) # <<>>
              /\ Present(last.before.file.json, Keys(last.args[1]))) =>
              /\ Completed
              /\ last.val = Lookup(last.before.file.json, Keys(last.args[1]))

\* after a call of the store somebody else wrote the file, and the next get
\* returned what was written
C9_Witness ==
    /\ ReadOfFile /\ last.changed /\ last.op = "get" /\ Completed
    /\ last.args = <<S(<<"a", ".", "b">>)>>
    /\ last.before.file.indent = 2
    /\ last.val = S(<<"b">>)

-----------------------------------------------------------------------------
(* C10 *)

FileMissing(fs) == ~fs.dir \/ fs.file = NoFile

\* the last call is a call of the store that passed its argument check
StoreCall ==
    \/ last.op \in {"get", "set"}
    \/ last.op \in {"has", "delete"} /\ KeyPathCall

\* the last call is a set that saves without loading: its key path is
\* omitted or flattens to the empty string
DirectSet ==
    /\ last.op = "set"
    /\ ~(KeyPathCall /\ flattenKeyPath(last.args[1]) # <<>>)

FreshGet ==
    (last.op = "get" /\ last.args = <<>> /\ FileMissing(last.before))
        => /\ Completed /\ last.val = EmptyObj
           /\ dirExists /\ file = _prepareSettingsData(EmptyObj)

\* C10 as stated: any operation on a store whose file does not exist first
\* saves an empty object; get without a key path on a fresh store returns
\* {} and leaves the file holding the encoding of {}.
C10_LazyFileAnyOperation ==
    /\ (StoreCall /\ FileMissing(last.before))
          => (Len(last.saves) >= 1 /\ last.saves[1] = EmptyObj)
    /\ FreshGet

\* C10 amended: any operation other than a set whose key path is omitted or
\* flattens to the empty string (get, has, delete, set with a key path), on
\* a store whose file does not exist, first saves an empty object; get
\* without a key path on a fresh store returns {} and leaves the file
\* holding the encoding of {}.
C10_LazyFile ==
    /\ (StoreCall /\ ~DirectSet /\ FileMissing(last.before))
          => /\ Len(last.saves) >= 1 /\ last.saves[1] = EmptyObj
             /\ dirExists /\ file # NoFile
    /\ FreshGet

\* has ran on a store whose directory did not exist and left the file
\* holding the empty object
C10_Witness ==
    /\ last.op = "has" /\ KeyPathCall /\ ~last.before.dir
    /\ last.saves = <<EmptyObj>>
    /\ last.val = Bool(FALSE)
    /\ dirExists /\ file = _prepareSettingsData(EmptyObj)

-----------------------------------------------------------------------------
(* The codec at work: a store of any configuration encodes a document and *)
(* decodes the bytes again.                                                *)

\* the configurations: written by rename or in place, prettified or not,
\* several indent widths, no encryption key or one of two
Configs ==
    [atomicSave : BOOLEAN, prettify : BOOLEAN, numSpaces : {0, 2, 4},
     encryptionKey : {"none", "k1", "k2"}]

\* a JSON value: what JSON text can denote
RECURSIVE IsJSON(_)
IsJSON(v) ==
    CASE v.t \in {"null", "bool", "num", "str"} -> TRUE
      [] v.t = "obj" -> \A k \in DOMAIN v.o : IsJSON(v.o[k])
      [] v.t = "arr" -> v.x = <<>> /\ \A i \in 1..Len(v.a) : IsJSON(v.a[i])
      [] OTHER -> FALSE

\* the documents encoded: the JSON values written, and values that are not
\* JSON (a member that is undefined or a function, an array with a hole or
\* with a named property)
CodecDocs ==
    Values \cup
    {Obj(<<"a">> :> Undef @@ <<"b">> :> Num(1)), Obj(<<"a">> :> Fn),
     Arr(<<[t |-> "hole"], Num(1)>>), Arr(<<Undef>>),
     [t |-> "arr", a |-> <<Num(1)>>, x |-> (<<"b">> :> Num(1))]}

InitCodec ==
    /\ opts \in Configs
    /\ codec \in [step : {"doc"}, doc : CodecDocs, data : {NoFile}, out : {Undef}]
    /\ dirExists = FALSE /\ file = NoFile /\ libStrict = FALSE
    /\ last = NoCall /\ hist = "fresh"
    /\ procs = <<>> /\ tmp = <<>> /\ faults = 0 /\ lastWrite = Undef
    /\ reference = NoReference

\* _prepareSettingsData makes the bytes of the document
Encode ==
    /\ codec.step = "doc"
    /\ codec' = [codec EXCEPT !.step = "encoded",
                              !.data = _prepareSettingsData(codec.doc)]
    /\ UNCHANGED <<dirExists, file, libStrict, last, hist,
                   opts, procs, tmp, faults, lastWrite, reference>>

\* _reconstructSettingsData makes a document of the bytes
Decode ==
    /\ codec.step = "encoded"
    /\ codec' = [codec EXCEPT !.step = "decoded",
                              !.out = _reconstructSettingsData(codec.data)]
    /\ UNCHANGED <<dirExists, file, libStrict, last, hist,
                   opts, procs, tmp, faults, lastWrite, reference>>

NextCodec == Encode \/ Decode

SpecCodec == InitCodec /\ [][NextCodec]_vars

-----------------------------------------------------------------------------
(* C16 *)

-----------------------------------------------------------------------------
(* The store step by step.  An operation is a chain of I/O requests; what *)
(* runs between two requests runs without interruption.  A blocking       *)
(* operation runs all its steps before anything else runs; the steps of   *)
(* non-blocking operations interleave.  A request may fail.               *)

Procs == {1, 2}

\* the error of an I/O request that fails (a stat that fails for another
\* reason than ENOENT, a failing mkdir, read or write)
IOError == "EIO"

\* most I/O requests that fail in one run
MaxFaults == 1

\* a file opened for writing and not written yet; a file a failed write
\* left half written; a file two writers wrote into
EmptyFile == [kind |-> "empty"]
PartialFile == [kind |-> "partial"]
MixedFile == [kind |-> "mixed"]

\* pc: the request pending.  then: what follows the save in progress.
\* obj: the document to save.  how: the way the outcome reached the caller.
\* calls: how often the callback was invoked.  io: the requests issued.
IdleProc ==
    [pc |-> "idle", op |-> "none", form |-> "sync", args |-> <<>>,
     keyPath |-> Null, val |-> Undef, fn |-> Undef, then |-> "none",
     obj |-> Undef, data |-> NoFile, err |-> NoError, res |-> Undef,
     how |-> "none", calls |-> 0, io |-> <<>>, saves |-> <<>>,
     before |-> [dir |-> FALSE, file |-> NoFile]]

\* the next request is issued
Goto(r, pc) == [r EXCEPT !.pc = pc, !.io = Append(@, pc)]

\* a callback that throws when it is handed a result, and returns when it
\* is handed an error
FnThrows == [t |-> "fn", throws |-> "on success"]

\* what a callback throws
CallbackError == "callback's exception"

\* the outcome reaches the caller: a blocking operation returns or throws;
\* a non-blocking one invokes its callback, and the call of a callback that
\* is not a function throws a TypeError nobody catches.  The result of get
\* and has is handed over inside the try of _readSettingsFile, whose catch
\* calls the callback again with what the callback threw; the callback of
\* set and delete is called when the write has completed, and what it
\* throws nobody catches.
Finish(r, err, val) ==
    IF r.form = "sync"
    THEN [r EXCEPT !.pc = "done", !.err = err,
                   !.res = IF err = NoError THEN val ELSE Undef,
                   !.how = IF err = NoError THEN "returned" ELSE "thrown"]
    ELSE IF r.fn = FnThrows /\ err = NoError
    THEN IF r.op \in {"get", "has"}
         THEN [r EXCEPT !.pc = "done", !.err = CallbackError, !.res = val,
                        !.how = "callback", !.calls = @ + 2]
         ELSE [r EXCEPT !.pc = "done", !.err = CallbackError, !.res = val,
                        !.how = "uncaught", !.calls = @ + 1]
    ELSE IF r.fn.t = "fn"
    THEN [r EXCEPT !.pc = "done", !.err = err,
                   !.res = IF err = NoError THEN val ELSE Undef,
                   !.how = "callback", !.calls = @ + 1]
    ELSE [r EXCEPT !.pc = "done", !.err = TypeError, !.res = Undef,
                   !.how = "uncaught"]

\* a save that writes nothing and reports success
_saveSettings_Unwritten(r, obj, then) ==
    IF then = "read" THEN Goto(r, "read") ELSE Finish(r, NoError, Undef)

\* a save that looks for the directory before it encodes, and writes the
\* empty object when the encoding throws
_saveSettings_ChecksFirst(r, obj, then) ==
    Goto([r EXCEPT !.obj = obj,
                   !.data = IF _prepareSettingsData(obj) = Thrown
                            THEN _prepareSettingsData(EmptyObj)
                            ELSE _prepareSettingsData(obj),
                   !.then = then, !.saves = Append(@, obj)],
         "statDir")

\* _saveSettings(obj, fn): the document is encoded, then the directory is
\* looked for; an encoding that throws ends the operation with its error
_saveSettings(r, obj, then) ==
    IF _prepareSettingsData(obj) = Thrown
    THEN Finish([r EXCEPT !.obj = obj, !.then = then,
                          !.saves = Append(@, obj)],
                TypeError, Undef)
    ELSE Goto([r EXCEPT !.obj = obj, !.data = _prepareSettingsData(obj),
                        !.then = then, !.saves = Append(@, obj)],
              "statDir")

\* args.splice(0, 1, flattenKeyPath(args[0])) or args.splice(0, 0, null)
Spliced(args) ==
    IF isKeyPath(Arg(args, 0))
    THEN <<Str(flattenKeyPath(args[1]))>> \o Tail(args)
    ELSE <<Null>> \o args

\* a check that lets every first argument pass
NeedsKeyPath_Never(op) == FALSE

\* the operations that throw when their first argument is no key path
NeedsKeyPath(op) == op \in {"has", "delete"}

\* a store whose set always loads: without a key path it sets the value
\* under the empty key of the document loaded
Begun_SetLoads(op, form, args, fs) ==
    LET full == IF form = "async" THEN Append(args, Fn) ELSE args
        sp == Spliced(full)
        r0 == [IdleProc EXCEPT !.op = op, !.form = form, !.args = args,
                               !.before = fs]
        r1 == [r0 EXCEPT !.keyPath = IF op = "set" /\ ~Truthy(sp[1])
                                     THEN S(<<>>) ELSE sp[1],
                         !.val = IF op = "set" THEN Arg(sp, 1) ELSE Undef,
                         !.fn = IF op = "set" THEN Arg(sp, 2) ELSE Arg(sp, 1)]
    IN IF NeedsKeyPath(op) /\ ~isKeyPath(Arg(full, 0))
       THEN [r0 EXCEPT !.pc = "done", !.err = TypeError, !.how = "thrown"]
       ELSE Goto(r1, "statFile")

\* a store whose set never loads: it saves its value whatever the key path
Begun_SetUnloaded(op, form, args, fs) ==
    LET full == IF form = "async" THEN Append(args, Fn) ELSE args
        sp == Spliced(full)
        r0 == [IdleProc EXCEPT !.op = op, !.form = form, !.args = args,
                               !.before = fs]
        r1 == [r0 EXCEPT !.keyPath = sp[1],
                         !.val = IF op = "set" THEN Arg(sp, 1) ELSE Undef,
                         !.fn = IF op = "set" THEN Arg(sp, 2) ELSE Arg(sp, 1)]
    IN IF NeedsKeyPath(op) /\ ~isKeyPath(Arg(full, 0))
       THEN [r0 EXCEPT !.pc = "done", !.err = TypeError, !.how = "thrown"]
       ELSE IF op = "set"
       THEN _saveSettings(r1, r1.val, "end")
       ELSE Goto(r1, "statFile")

\* the public operation up to its first request.  The non-blocking form
\* is called with the callback after the arguments.
Begun(op, form, args, fs) ==
    LET full == IF form = "async" THEN Append(args, Fn) ELSE args
        sp == Spliced(full)
        r0 == [IdleProc EXCEPT !.op = op, !.form = form, !.args = args,
                               !.before = fs]
        r1 == [r0 EXCEPT !.keyPath = sp[1],
                         !.val = IF op = "set" THEN Arg(sp, 1) ELSE Undef,
                         !.fn = IF op = "set" THEN Arg(sp, 2) ELSE Arg(sp, 1)]
    IN IF NeedsKeyPath(op) /\ ~isKeyPath(Arg(full, 0))
       THEN [r0 EXCEPT !.pc = "done", !.err = TypeError, !.how = "thrown"]
       ELSE IF op = "set" /\ ~Truthy(r1.keyPath)
       THEN _saveSettings(r1, r1.val, "end")
       ELSE Goto(r1, "statFile")

\* what follows the load: the accessor, and for set and delete the save
Loaded(r, obj, strict) ==
    CASE r.op = "get" ->
            IF Truthy(r.keyPath)
            THEN LET v == getValueAtKeyPath(obj, r.keyPath.s)
                 IN IF v = Thrown THEN Finish(r, TypeError, Undef)
                    ELSE Finish(r, NoError, v)
            ELSE Finish(r, NoError, obj)
      [] r.op = "has" -> Finish(r, NoError, Bool(hasKeyPath(obj, r.keyPath.s)))
      [] r.op = "set" ->
            LET o == setValueAtKeyPath(obj, r.keyPath.s, r.val, strict)
            IN IF o = Thrown THEN Finish(r, TypeError, Undef)
               ELSE _saveSettings(r, o, "end")
      [] r.op = "delete" ->
            LET o == deleteValueAtKeyPath(obj, r.keyPath.s, strict)
            IN IF o = Thrown THEN Finish(r, TypeError, Undef)
               ELSE _saveSettings(r, o, "end")

\* a save whose end is never told to the operation that waits for it
Saved_Forgotten(r) ==
    IF r.then = "read" THEN Goto(r, "read") ELSE [r EXCEPT !.pc = "waiting"]

\* what follows a save: the read of the file just created, or the end
Saved(r) ==
    IF r.then = "read" THEN Goto(r, "read") ELSE Finish(r, NoError, Undef)

\* a write that is always done in place
WriteRequest_InPlace == "open"

\* the first request of the write: writeFileAtomic writes a temporary file
\* and renames it, fs.writeFile opens the file itself
WriteRequest == IF _config.atomicSave THEN "writeTmp" ELSE "open"

\* the length of the text JSON.stringify makes of a JSON value without
\* indentation (the strings stored hold no character that JSON escapes,
\* the numbers have one digit): every element or member is followed by a
\* comma or by the closing bracket
RECURSIVE JSONLength(_)
RECURSIVE ElementsLength(_)
RECURSIVE MembersLength(_, _)
ElementsLength(a) ==
    IF a = <<>> THEN 0
    ELSE JSONLength(Head(a)) + 1 + ElementsLength(Tail(a))
MembersLength(o, keys) ==
    IF keys = {} THEN 0
    ELSE LET k == CHOOSE k \in keys : TRUE
         IN Len(k) + 3 + JSONLength(o[k]) + 1 + MembersLength(o, keys \ {k})
JSONLength(v) ==
    CASE v.t = "null" -> 4
      [] v.t = "bool" -> IF v.b THEN 4 ELSE 5
      [] v.t = "num" -> 1
      [] v.t = "str" -> Len(v.s) + 2
      [] v.t = "arr" -> IF v.a = <<>> THEN 2 ELSE 1 + ElementsLength(v.a)
      [] v.t = "obj" -> IF DOMAIN v.o = {} THEN 2 ELSE 1 + MembersLength(v.o, DOMAIN v.o)
      [] OTHER -> 0

\* the length of a file's content: a text, a ciphertext (whole blocks of
\* 16 bytes, the last one padded), a mix of texts
TextLength(data) ==
    CASE data.kind = "json" -> JSONLength(data.json)
      [] data.kind = "cipher" -> 16 * ((JSONLength(data.plain.json) \div 16) + 1)
      [] data.kind = "mixed" -> data.len
      [] OTHER -> 0

\* fs.writeFile writes from the start of the file it opened: content that
\* somebody else wrote since and that is longer keeps its tail
Overwritten(content, data) ==
    IF TextLength(content) <= TextLength(data) THEN data
    ELSE [kind |-> "mixed", len |-> TextLength(content)]

-----------------------------------------------------------------------------
(* the inputs of the step by step view *)

\* the options given: none, a write in place, an encryption key
StepConfigs == {<<>>, [atomicSave |-> FALSE], [encryptionKey |-> "k1"]}

\* the file system the store finds: no directory, no file, a document
\* saved under the same options (one where a holds a number, one where a
\* holds an object), text that is not JSON, a ciphertext of another key
InitialFS ==
    {[dir |-> FALSE, file |-> NoFile]} \cup
    {[dir |-> TRUE, file |-> f] :
        f \in {NoFile, Garbage,
               _prepareSettingsData(Obj(<<"a">> :> Num(1))),
               _prepareSettingsData(Obj(<<"a">> :> Obj(<<"b">> :> Num(1)))),
               [kind |-> "cipher", key |-> "k2",
                plain |-> [kind |-> "json", json |-> EmptyObj, indent |-> 0]]}}

Forms == {"sync", "async"}

\* first arguments that are no key path: none, null, a number, an object,
\* the empty array, an array with an element that is no key path
NoKeyPath ==
    {<<>>, <<Null>>, <<Num(1)>>, <<EmptyObj>>, <<Arr(<<>>)>>,
     <<Arr(<<S(<<"a">>), Num(1)>>)>>}

\* the calls of the first caller, in both forms
StepCalls ==
    [op : {"get"}, form : Forms,
     args : {<<>>, <<S(<<"a">>)>>, <<S(<<"a", ".", "b">>)>>, <<Num(1)>>}]
    \cup
    [op : {"has", "delete"}, form : Forms,
     args : {<<S(<<"a">>)>>, <<S(<<"a", ".", "b">>)>>} \cup NoKeyPath]
    \cup
    [op : {"set"}, form : Forms,
     args : {<<S(<<"a">>), Num(2)>>, <<S(<<"a", ".", "b">>), Num(2)>>,
             <<S(<<>>), Num(2)>>, <<Obj(<<"b">> :> Num(1))>>,
             <<Arr(<<S(<<"a">>), Num(1)>>), Num(2)>>,
             <<Circular>>, <<S(<<"a">>), Circular>>}]

\* the calls of a second caller, non-blocking
OtherCalls ==
    {[op |-> "get", form |-> "async", args |-> <<>>],
     [op |-> "set", form |-> "async", args |-> <<S(<<"b">>), Num(2)>>],
     [op |-> "delete", form |-> "async", args |-> <<S(<<"a">>)>>]}

-----------------------------------------------------------------------------
(* the steps *)

Running(p) == procs[p].pc \notin {"idle", "done"}

\* nothing runs while a blocking operation is under way
MayStep(p) ==
    \A q \in Procs \ {p} : ~(procs[q].form = "sync" /\ Running(q))

InitSteps ==
    /\ opts \in StepConfigs
    /\ libStrict \in BOOLEAN
    /\ \E fs \in InitialFS : dirExists = fs.dir /\ file = fs.file
    /\ procs = [p \in Procs |-> IdleProc]
    /\ tmp = [p \in Procs |-> NoFile]
    /\ faults = 0
    /\ lastWrite = Undef
    /\ codec = <<>>
    /\ last = NoCall
    /\ hist = "fresh"
    /\ reference = NoReference

\* a caller calls a public operation; a second caller comes only while no
\* request has failed
Start(p) ==
    /\ procs[p].pc = "idle" /\ MayStep(p)
    /\ p # 1 => faults = 0
    /\ \E c \in (IF p = 1 THEN StepCalls ELSE OtherCalls) :
          procs' = [procs EXCEPT ![p] = Begun(c.op, c.form, c.args, FS)]
    /\ UNCHANGED <<dirExists, file, tmp, faults, lastWrite>>
    /\ UNCHANGED <<libStrict, last, hist, opts, codec, reference>>

\* a file check that has the empty object saved whether the file exists
\* or not
StatFile_AlwaysSaves(p) ==
    /\ procs[p].pc = "statFile" /\ MayStep(p)
    /\ procs' = [procs EXCEPT ![p] = _saveSettings(@, EmptyObj, "read")]
    /\ UNCHANGED <<dirExists, file, tmp, faults, lastWrite>>
    /\ UNCHANGED <<libStrict, last, hist, opts, codec, reference>>

\* the stat of the file returns: the file is read, or the empty object is
\* saved first
StatFile(p) ==
    /\ procs[p].pc = "statFile" /\ MayStep(p)
    /\ procs' = [procs EXCEPT ![p] =
                    IF dirExists /\ file # NoFile THEN Goto(@, "read")
                    ELSE _saveSettings(@, EmptyObj, "read")]
    /\ UNCHANGED <<dirExists, file, tmp, faults, lastWrite>>
    /\ UNCHANGED <<libStrict, last, hist, opts, codec, reference>>

\* the stat of the directory returns: the write begins, or the directory
\* is made first
StatDir(p) ==
    /\ procs[p].pc = "statDir" /\ MayStep(p)
    /\ procs' = [procs EXCEPT ![p] =
                    IF dirExists THEN Goto(@, WriteRequest) ELSE Goto(@, "mkdir")]
    /\ UNCHANGED <<dirExists, file, tmp, faults, lastWrite>>
    /\ UNCHANGED <<libStrict, last, hist, opts, codec, reference>>

\* mkdirp has made the directory
Mkdir(p) ==
    /\ procs[p].pc = "mkdir" /\ MayStep(p)
    /\ dirExists' = TRUE
    /\ procs' = [procs EXCEPT ![p] = Goto(@, WriteRequest)]
    /\ UNCHANGED <<file, tmp, faults, lastWrite>>
    /\ UNCHANGED <<libStrict, last, hist, opts, codec, reference>>

\* one temporary file for every writer
TmpOf_Shared(p) == 1

\* the temporary file of a writer: writeFileAtomic names it after the
\* settings file and a count of its invocations
TmpOf(p) == p

\* a writeFileAtomic that writes the data into the settings file itself
WriteTmp_InPlace(p) ==
    /\ procs[p].pc = "writeTmp" /\ MayStep(p)
    /\ file' = procs[p].data
    /\ tmp' = [tmp EXCEPT ![TmpOf(p)] = procs[p].data]
    /\ procs' = [procs EXCEPT ![p] = Goto(@, "rename")]
    /\ UNCHANGED <<dirExists, faults, lastWrite>>
    /\ UNCHANGED <<libStrict, last, hist, opts, codec, reference>>

\* writeFileAtomic has written the data to its temporary file
WriteTmp(p) ==
    /\ procs[p].pc = "writeTmp" /\ MayStep(p)
    /\ tmp' = [tmp EXCEPT ![TmpOf(p)] = procs[p].data]
    /\ procs' = [procs EXCEPT ![p] = Goto(@, "rename")]
    /\ UNCHANGED <<dirExists, file, faults, lastWrite>>
    /\ UNCHANGED <<libStrict, last, hist, opts, codec, reference>>

\* a rename that applies the set of p to the document the file holds at
\* that moment, as a store that locked the file would
Rename_Merging(p) ==
    /\ procs[p].pc = "rename" /\ MayStep(p)
    /\ file' = IF /\ procs[p].op = "set" /\ Truthy(procs[p].keyPath)
                  /\ ~StringifyThrows(procs[p].val)
                  /\ file # NoFile /\ _reconstructSettingsData(file) # Thrown
                  /\ setValueAtKeyPath(_reconstructSettingsData(file),
                                       procs[p].keyPath.s, procs[p].val,
                                       FALSE) # Thrown
               THEN _prepareSettingsData(
                        setValueAtKeyPath(_reconstructSettingsData(file),
                                          procs[p].keyPath.s, procs[p].val,
                                          FALSE))
               ELSE tmp[TmpOf(p)]
    /\ tmp' = [tmp EXCEPT ![TmpOf(p)] = NoFile]
    /\ lastWrite' = procs[p].obj
    /\ procs' = [procs EXCEPT ![p] = Saved(@)]
    /\ UNCHANGED <<dirExists, faults>>
    /\ UNCHANGED <<libStrict, last, hist, opts, codec, reference>>

\* writeFileAtomic has renamed its temporary file to the settings file
Rename(p) ==
    /\ procs[p].pc = "rename" /\ MayStep(p)
    /\ file' = tmp[TmpOf(p)]
    /\ tmp' = [tmp EXCEPT ![TmpOf(p)] = NoFile]
    /\ lastWrite' = procs[p].obj
    /\ procs' = [procs EXCEPT ![p] = Saved(@)]
    /\ UNCHANGED <<dirExists, faults>>
    /\ UNCHANGED <<libStrict, last, hist, opts, codec, reference>>

\* fs.writeFile has opened the settings file, which truncates it
Open(p) ==
    /\ procs[p].pc = "open" /\ MayStep(p)
    /\ file' = EmptyFile
    /\ procs' = [procs EXCEPT ![p] = Goto(@, "writeFile")]
    /\ UNCHANGED <<dirExists, tmp, faults, lastWrite>>
    /\ UNCHANGED <<libStrict, last, hist, opts, codec, reference>>

\* fs.writeFile has written the data into the settings file
WriteFile(p) ==
    /\ procs[p].pc = "writeFile" /\ MayStep(p)
    /\ file' = Overwritten(file, procs[p].data)
    /\ lastWrite' = procs[p].obj
    /\ procs' = [procs EXCEPT ![p] = Saved(@)]
    /\ UNCHANGED <<dirExists, tmp, faults>>
    /\ UNCHANGED <<libStrict, last, hist, opts, codec, reference>>

\* the read of the file returns: the content is decoded and the accessor
\* runs; set and delete go on to save
Read(p) ==
    /\ procs[p].pc = "read" /\ MayStep(p)
    /\ procs' = [procs EXCEPT ![p] =
                    IF file = NoFile THEN Finish(@, "ENOENT", Undef)
                    ELSE IF _reconstructSettingsData(file) = Thrown
                    THEN Finish(@, DecodeError(file), Undef)
                    ELSE Loaded(@, _reconstructSettingsData(file), libStrict)]
    /\ UNCHANGED <<dirExists, file, tmp, faults, lastWrite>>
    /\ UNCHANGED <<libStrict, last, hist, opts, codec, reference>>

\* a store that takes every failed stat for the answer that there is
\* nothing: it goes on to save the empty object, or to make the directory
Fail_TakenForMissing(p) ==
    /\ Running(p) /\ MayStep(p)
    /\ faults < MaxFaults
    /\ \A q \in Procs \ {p} : procs[q].pc = "idle"
    /\ faults' = faults + 1
    /\ IF procs[p].pc = "writeFile"
       THEN file' \in {EmptyFile, PartialFile}
       ELSE file' = file
    /\ tmp' = [tmp EXCEPT ![TmpOf(p)] = NoFile]
    /\ procs' = [procs EXCEPT ![p] =
                    CASE @.pc = "statFile" -> _saveSettings(@, EmptyObj, "read")
                      [] @.pc = "statDir" -> Goto(@, "mkdir")
                      [] OTHER -> Finish(@, IOError, Undef)]
    /\ UNCHANGED <<dirExists, lastWrite>>
    /\ UNCHANGED <<libStrict, last, hist, opts, codec, reference>>

\* the pending request fails: the operation ends with the error.  A write
\* in place that fails leaves the file empty or half written; a failed
\* writeFileAtomic removes its temporary file.  (Requests fail only while
\* one caller is at work.)
Fail(p) ==
    /\ Running(p) /\ MayStep(p)
    /\ faults < MaxFaults
    /\ \A q \in Procs \ {p} : procs[q].pc = "idle"
    /\ faults' = faults + 1
    /\ IF procs[p].pc = "writeFile"
       THEN file' \in {EmptyFile, PartialFile}
       ELSE file' = file
    /\ tmp' = [tmp EXCEPT ![TmpOf(p)] = NoFile]
    /\ procs' = [procs EXCEPT ![p] = Finish(@, IOError, Undef)]
    /\ UNCHANGED <<dirExists, lastWrite>>
    /\ UNCHANGED <<libStrict, last, hist, opts, codec, reference>>

NextSteps ==
    \E p \in Procs :
        \/ Start(p) \/ StatFile(p) \/ StatDir(p) \/ Mkdir(p)
        \/ WriteTmp(p) \/ Rename(p) \/ Open(p) \/ WriteFile(p)
        \/ Read(p) \/ Fail(p)

SpecSteps == InitSteps /\ [][NextSteps]_vars

\* the shape of the state of the step by step view
StepsOK ==
    /\ dirExists \in BOOLEAN
    /\ faults \in 0..MaxFaults
    /\ \A p \in Procs :
          /\ procs[p].pc \in {"idle", "statFile", "statDir", "mkdir", "writeTmp",
                              "rename", "open", "writeFile", "read", "done"}
          /\ procs[p].calls \in 0..1
          /\ procs[p].pc = "done" <=> procs[p].how # "none"

-----------------------------------------------------------------------------
(* notions the properties of the step by step view are stated with *)

Done(p) == procs[p].pc = "done"

\* no other operation has begun
Alone(p) == \A q \in Procs \ {p} : procs[q].pc = "idle"

\* the operation ended and its caller was told so without an error
Succeeded(p) ==
    /\ Done(p) /\ procs[p].err = NoError
    /\ procs[p].how \in {"returned", "callback"}

\* the step by step view of a blocking operation agrees with the blocking
\* form computed at once
StepsAgree ==
    \A p \in Procs :
        (Done(p) /\ procs[p].form = "sync" /\ Alone(p) /\ faults = 0)
            => LET out == Run(procs[p].op, procs[p].before, procs[p].args)
               IN /\ procs[p].err = out.err
                  /\ procs[p].err = NoError => procs[p].res = out.val
                  /\ procs[p].saves = out.saves
                  /\ dirExists = out.dir /\ file = out.file

-----------------------------------------------------------------------------
(* C11 *)

\* C11: a set or delete, blocking or not, that completed successfully on a
\* store whose directory did not exist leaves the directory and the file
\* existing.
C11_MutationCreatesDirAndFile ==
    \A p \in Procs :
        (/\ Succeeded(p) /\ procs[p].op \in {"set", "delete"}
         /\ ~procs[p].before.dir)
            => (dirExists /\ file # NoFile)

\* a non-blocking delete completed on a store that had no directory, and
\* the file holds the empty object
C11_Witness ==
    /\ Succeeded(1) /\ procs[1].op = "delete" /\ procs[1].form = "async"
    /\ ~procs[1].before.dir
    /\ "mkdir" \in {procs[1].io[i] : i \in DOMAIN procs[1].io}
    /\ dirExists /\ file = _prepareSettingsData(EmptyObj)

-----------------------------------------------------------------------------
(* C12 *)

\* the non-blocking operation p, run alone and without a failing request,
\* told its caller what the blocking form tells for the same file system
\* and arguments, and left the same file system
SameAsBlocking(p) ==
    LET out == Run(procs[p].op, procs[p].before, procs[p].args)
    IN /\ procs[p].how \in {"callback", "thrown"}
       /\ procs[p].err = out.err
       /\ procs[p].err = NoError => procs[p].res = out.val
       /\ dirExists = out.dir /\ file = out.file

\* the first argument is present and is no key path, the case in which get
\* and set take the arguments for other ones
Misplaced(p) ==
    /\ procs[p].op \in {"get", "set"}
    /\ Len(procs[p].args) >= (IF procs[p].op = "set" THEN 2 ELSE 1)
    /\ ~isKeyPath(procs[p].args[1])

\* C12: for the same initial file system, configuration and arguments, and
\* with no other operation interleaved, the non-blocking form of get, has,
\* set and delete produces the same result value or the same error as the
\* blocking form and leaves the same file system.
C12_FormsAgree ==
    \A p \in Procs :
        (Done(p) /\ procs[p].form = "async" /\ Alone(p) /\ faults = 0)
            => SameAsBlocking(p)

\* the two forms agree in every call but those whose first argument is
\* present and no key path
FormsAgreeButMisplaced ==
    \A p \in Procs :
        (/\ Done(p) /\ procs[p].form = "async" /\ Alone(p) /\ faults = 0
         /\ ~Misplaced(p))
            => SameAsBlocking(p)

-----------------------------------------------------------------------------
(* C13 *)

\* the operation p was called without a valid key path
WithoutKeyPath(p) ==
    procs[p].args = <<>> \/ ~isKeyPath(procs[p].args[1])

\* the caller of p got a TypeError thrown at it by the call itself: no
\* request was issued, nothing was saved, no callback was invoked
ThrownAtOnce(p) ==
    /\ Done(p) /\ procs[p].how = "thrown" /\ procs[p].err = TypeError
    /\ procs[p].io = <<>> /\ procs[p].saves = <<>> /\ procs[p].calls = 0

\* C13: has, hasSync, delete and deleteSync called without a valid key
\* path throw the invalid key path error at the caller before any storage
\* access: no stat, read, mkdir or write is issued and the file system is
\* as it was.
C13_InvalidKeyPathThrowsAtOnce ==
    \A p \in Procs :
        (/\ procs[p].pc # "idle" /\ procs[p].op \in {"has", "delete"}
         /\ WithoutKeyPath(p))
            => /\ ThrownAtOnce(p)
               /\ Alone(p) => /\ FS = procs[p].before
                              /\ \A q \in Procs : tmp[q] = NoFile

\* a non-blocking delete was called with ['a', 1] on a store without
\* directory: it threw, and there is still no directory and no file
C13_Witness ==
    /\ procs[1].op = "delete" /\ procs[1].form = "async"
    /\ procs[1].args = <<Arr(<<S(<<"a">>), Num(1)>>)>>
    /\ ThrownAtOnce(1)
    /\ ~dirExists /\ file = NoFile /\ Alone(1)

-----------------------------------------------------------------------------
(* C14 *)

\* set was called with a first argument that is no key path, followed by
\* a value
MalformedSet(p) ==
    /\ procs[p].op = "set" /\ Len(procs[p].args) = 2
    /\ ~isKeyPath(procs[p].args[1])

\* C14: set and setSync called with a malformed key path followed by a
\* value throw the invalid key path error at the caller before any I/O and
\* leave the stored document unchanged.
C14_MalformedSetThrowsAtOnce ==
    \A p \in Procs :
        (procs[p].pc # "idle" /\ MalformedSet(p))
            => /\ ThrownAtOnce(p)
               /\ Alone(p) => file = procs[p].before.file

\* what the code does instead: setSync(['a', 1], 2) returned normally and
\* the file holds ['a', 1] for the document
MalformedSetSaved ==
    /\ MalformedSet(1) /\ procs[1].form = "sync" /\ Succeeded(1)
    /\ procs[1].before.file = _prepareSettingsData(Obj(<<"a">> :> Num(1)))
    /\ file = _prepareSettingsData(procs[1].args[1])
    /\ procs[1].io = <<"statDir", WriteRequest>> \o
                     (IF _config.atomicSave THEN <<"rename">> ELSE <<"writeFile">>)

-----------------------------------------------------------------------------
(* C15 *)

\* get was called with a first argument that is present and no key path
MalformedGet(p) ==
    /\ procs[p].op = "get" /\ Len(procs[p].args) >= 1
    /\ ~isKeyPath(procs[p].args[1])

\* C15: get and getSync called with a first argument that is present and
\* no key path signal the invalid key path error and yield no value; the
\* callback of the non-blocking form is invoked with the outcome.
C15_MalformedGetSignalsError ==
    \A p \in Procs :
        (Done(p) /\ MalformedGet(p))
            => /\ procs[p].err = TypeError /\ procs[p].res = Undef
               /\ procs[p].form = "sync" => procs[p].how = "thrown"
               /\ procs[p].form = "async" =>
                     procs[p].how \in {"thrown", "callback"}
               /\ procs[p].how = "callback" => procs[p].calls = 1

\* what the code does instead: getSync(1) returned the whole document
MalformedGetReturnsAll ==
    /\ MalformedGet(1) /\ procs[1].form = "sync" /\ Succeeded(1)
    /\ procs[1].before.file = _prepareSettingsData(Obj(<<"a">> :> Num(1)))
    /\ procs[1].res = Obj(<<"a">> :> Num(1))

\* and get(1, fn) never invoked fn: 1 was taken for the callback
MalformedGetNeverCallsBack ==
    /\ MalformedGet(1) /\ procs[1].form = "async" /\ Done(1)
    /\ procs[1].how = "uncaught" /\ procs[1].calls = 0

-----------------------------------------------------------------------------
(* C17 *)

\* the store holds a file whose content, deciphered under the configured
\* key if there is one, is not the text of a JSON value
Undecodable(fs) ==
    /\ fs.dir /\ fs.file # NoFile
    /\ Decrypted(fs.file) = Thrown \/ Decrypted(fs.file).kind # "json"

\* the first argument of p is a valid key path
WithKeyPath(p) == Len(procs[p].args) >= 1 /\ isKeyPath(procs[p].args[1])

\* the first argument of p is a valid key path that is not the empty string
WithUsedKeyPath(p) ==
    WithKeyPath(p) /\ flattenKeyPath(procs[p].args[1]) # <<>>

\* the caller of p got the codec's error for the file the store held,
\* thrown in the blocking form and through the callback otherwise; nothing
\* was saved and the file is as it was
CodecErrorSurfaced(p) ==
    /\ procs[p].err = DecodeError(procs[p].before.file)
    /\ procs[p].how = (IF procs[p].form = "sync" THEN "thrown" ELSE "callback")
    /\ procs[p].form = "async" => procs[p].calls = 1
    /\ procs[p].saves = <<>>
    /\ procs[p].io = <<"statFile", "read">>
    /\ FS = procs[p].before

\* C17 as stated: on a file that cannot be decoded, get (without or with a
\* valid key path), has, delete and every set with a key path surface the
\* codec's error and leave the file as it was, saving nothing.
C17_UndecodableAnySet ==
    \A p \in Procs :
        (/\ Done(p) /\ Alone(p) /\ faults = 0 /\ Undecodable(procs[p].before)
         /\ \/ procs[p].op = "get" /\ (procs[p].args = <<>> \/ WithKeyPath(p))
            \/ procs[p].op \in {"has", "delete", "set"} /\ WithKeyPath(p))
            => CodecErrorSurfaced(p)

\* C17: the same, for the sets whose key path is not the empty string.
C17_Undecodable ==
    \A p \in Procs :
        (/\ Done(p) /\ Alone(p) /\ faults = 0 /\ Undecodable(procs[p].before)
         /\ \/ procs[p].op = "get" /\ (procs[p].args = <<>> \/ WithKeyPath(p))
            \/ procs[p].op \in {"has", "delete"} /\ WithKeyPath(p)
            \/ procs[p].op = "set" /\ WithUsedKeyPath(p))
            => CodecErrorSurfaced(p)

\* a non-blocking set('a.b', 2) under the key k1 found a file enciphered
\* with another key: its callback got the decipher's error, and the file
\* is the one found
C17_Witness ==
    /\ Done(1) /\ Alone(1) /\ faults = 0
    /\ procs[1].op = "set" /\ procs[1].form = "async" /\ WithUsedKeyPath(1)
    /\ _config.encryptionKey = "k1"
    /\ procs[1].before.file.kind = "cipher" /\ procs[1].before.file.key = "k2"
    /\ procs[1].err = DecryptError /\ procs[1].how = "callback"
    /\ file = procs[1].before.file

-----------------------------------------------------------------------------
(* C18 *)

\* a step of the operation p failed: a request (the stat or the making of
\* the directory, the stat of the file, the read, the write), or the
\* decoding of the file
StepFailed(p) ==
    /\ Done(p) /\ Alone(p)
    /\ \/ faults > 0
       \/ /\ Undecodable(procs[p].before)
          /\ "read" \in {procs[p].io[i] : i \in DOMAIN procs[p].io}

\* the file is the one the operation found, and no file if it found none
StoredAsBefore(p) ==
    IF FileMissing(procs[p].before) THEN file = NoFile
    ELSE file = procs[p].before.file

\* what a failed operation can leave instead: the empty object its file
\* bootstrap saved where there was no file, and, when the write is done in
\* place, a file the failed write left empty or half written
LeftBehind(p) ==
    (IF FileMissing(procs[p].before)
     THEN {_prepareSettingsData(EmptyObj)} ELSE {})
    \cup (IF _config.atomicSave THEN {} ELSE {EmptyFile, PartialFile})

-----------------------------------------------------------------------------
(* C19 *)

\* the save that p has in progress
SavedBy(p) == procs[p].saves[Len(procs[p].saves)]

\* the step is the rename that ends a save of p: the temporary file held
\* the whole encoding of the document of that save, and the settings file
\* holds it now
RenameOf(p) ==
    /\ procs[p].pc = "rename" /\ procs'[p].pc # "rename"
    /\ procs[p].saves # <<>> /\ procs[p].obj = SavedBy(p)
    /\ tmp[TmpOf(p)] = _prepareSettingsData(SavedBy(p))
    /\ file' = _prepareSettingsData(SavedBy(p))

\* C19: with atomicSave on, whatever step the process stops after, the
\* settings file holds what it held before unless the step is the rename
\* that ends a save, and then it holds the complete encoding of the
\* document of that save: the content changes in no other step.
C19_AtomicSaveAllOrNothing ==
    [][_config.atomicSave =>
          (file' = file \/ \E p \in Procs : RenameOf(p))]_vars

\* one save has been renamed into place and the file holds its document;
\* the other save has written its temporary file, with another document,
\* and is not renamed yet
C19_Witness ==
    /\ _config.atomicSave
    /\ Done(1) /\ procs[1].saves # <<>>
    /\ file = _prepareSettingsData(SavedBy(1))
    /\ file # procs[1].before.file
    /\ procs[2].pc = "rename" /\ tmp[TmpOf(2)] = procs[2].data
    /\ tmp[TmpOf(2)] # file

-----------------------------------------------------------------------------
(* C20 *)

\* two non-blocking mutating operations were called, both have ended, no
\* request failed, and at least one write was completed
Quiescent ==
    /\ \A p \in Procs : /\ Done(p) /\ procs[p].form = "async"
                        /\ procs[p].op \in {"set", "delete"}
    /\ faults = 0 /\ lastWrite # Undef

\* C20 as stated: once concurrent non-blocking mutating operations have
\* all ended, the file holds exactly the document of the save whose write
\* was completed last.
C20_LastSaveWinsAnyWrite ==
    Quiescent => file = _prepareSettingsData(lastWrite)

\* C20: the same with atomicSave on.
C20_LastSaveWins ==
    (Quiescent /\ _config.atomicSave) => file = _prepareSettingsData(lastWrite)

\* set('a', 2) and set('b', 2) ran on {a: 1}, both read the file before
\* either wrote, the write of set('a', 2) was completed last: the file
\* holds {a: 2}, and b is lost
C20_Witness ==
    /\ Quiescent /\ _config.atomicSave
    /\ Succeeded(1) /\ Succeeded(2)
    /\ procs[1].args = <<S(<<"a">>), Num(2)>>
    /\ procs[2].args = <<S(<<"b">>), Num(2)>>
    /\ procs[2].saves = <<Obj(<<"a">> :> Num(1) @@ <<"b">> :> Num(2))>>
    /\ lastWrite = Obj(<<"a">> :> Num(2))
    /\ file = _prepareSettingsData(Obj(<<"a">> :> Num(2)))

-----------------------------------------------------------------------------
(* C21 *)

\* p is a non-blocking set with a key path that loaded the document and
\* went on to write it
SetSaved(p) ==
    /\ Done(p) /\ procs[p].op = "set" /\ procs[p].form = "async"
    /\ WithUsedKeyPath(p) /\ Len(procs[p].args) = 2
    /\ procs[p].then = "end" /\ procs[p].saves # <<>>
    /\ ~StringifyThrows(procs[p].obj)

\* the document holds the value the set p put at its key path
HasUpdate(doc, p) ==
    /\ doc # Thrown
    /\ getValueAtKeyPath(doc, procs[p].keyPath.s) = procs[p].val

\* two sets on different key paths both loaded the document before either
\* saved: the document each one saved is without the update of the other
BothLoadedFirst ==
    /\ SetSaved(1) /\ SetSaved(2) /\ faults = 0
    /\ procs[1].keyPath # procs[2].keyPath
    /\ ~HasUpdate(SavedBy(1), 2) /\ ~HasUpdate(SavedBy(2), 1)

\* C21: nothing locks the file.  When two non-blocking sets on different
\* key paths have both loaded the document before either saved, both
\* callbacks report success, and the document stored in the end never holds
\* both updates; with atomicSave it is the document of one of the two
\* saves, the update of the other being lost.
C21_LostUpdate ==
    BothLoadedFirst =>
        /\ Succeeded(1) /\ Succeeded(2)
        /\ procs[1].calls = 1 /\ procs[2].calls = 1
        /\ ~(/\ file # NoFile
             /\ HasUpdate(_reconstructSettingsData(file), 1)
             /\ HasUpdate(_reconstructSettingsData(file), 2))
        /\ _config.atomicSave =>
              file \in {_prepareSettingsData(SavedBy(1)),
                        _prepareSettingsData(SavedBy(2))}

\* set('a', 2) and set('b', 2) ran on {a: 1} and both loaded {a: 1}; the
\* write of set('b', 2) was completed last: both callbacks reported
\* success, the file holds {a: 1, b: 2}, and a: 2 is lost
C21_Witness ==
    /\ BothLoadedFirst
    /\ Succeeded(1) /\ Succeeded(2)
    /\ procs[1].before.file = _prepareSettingsData(Obj(<<"a">> :> Num(1)))
    /\ procs[1].args = <<S(<<"a">>), Num(2)>>
    /\ procs[2].args = <<S(<<"b">>), Num(2)>>
    /\ SavedBy(1) = Obj(<<"a">> :> Num(2))
    /\ file = _prepareSettingsData(
                  Obj(<<"a">> :> Num(1) @@ <<"b">> :> Num(2)))

-----------------------------------------------------------------------------
(* C22 *)

\* the operation p, run alone, met a storage error (a request failed) or
\* a codec error (the file could not be decoded, or the document could not
\* be encoded)
StorageOrCodecError(p) ==
    \/ StepFailed(p)
    \/ /\ Done(p) /\ Alone(p)
       /\ procs[p].saves # <<>> /\ StringifyThrows(procs[p].obj)

\* the error reached the caller the way its form of call has it: thrown by
\* the blocking form, which returns nothing; handed to the callback of the
\* non-blocking form as the first argument, without a result
RightChannel(p) ==
    /\ procs[p].err # NoError /\ procs[p].res = Undef
    /\ procs[p].form = "sync" => procs[p].how = "thrown"
    /\ procs[p].form = "async" =>
          procs[p].how = "callback" /\ procs[p].calls = 1

\* the callback of a non-blocking operation that met no error was invoked
\* once, with a null error
NullErrorOnSuccess(p) ==
    (/\ Done(p) /\ Alone(p) /\ procs[p].form = "async" /\ faults = 0
     /\ ~StorageOrCodecError(p) /\ procs[p].err = NoError)
        => procs[p].how = "callback" /\ procs[p].calls = 1

\* C22: a storage or codec error is thrown at the caller of a blocking
\* operation, which returns no value; a non-blocking operation never throws
\* it but invokes its callback with the error and no result, and invokes it
\* with a null error on success.
C22_ErrorsByTheRightChannel ==
    \A p \in Procs :
        /\ StorageOrCodecError(p) => RightChannel(p)
        /\ NullErrorOnSuccess(p)

\* the same holds of every call but those whose first argument is present
\* and no key path
RightChannelButMisplaced ==
    \A p \in Procs :
        /\ (StorageOrCodecError(p) /\ ~Misplaced(p)) => RightChannel(p)
        /\ NullErrorOnSuccess(p)

\* what the code does instead: the read of get(1, fn) failed, fn was not
\* invoked, and a TypeError went uncaught
StorageErrorNeverCallsBack ==
    /\ StorageOrCodecError(1) /\ MalformedGet(1) /\ procs[1].form = "async"
    /\ faults = 1 /\ procs[1].io = <<"statFile", "read">>
    /\ procs[1].how = "uncaught" /\ procs[1].calls = 0

-----------------------------------------------------------------------------
(* C23 *)

\* the request that p has pending completes, one way or the other
Completes(p) ==
    \/ StatFile(p) \/ StatDir(p) \/ Mkdir(p)
    \/ WriteTmp(p) \/ Rename(p) \/ Open(p) \/ WriteFile(p)
    \/ Read(p) \/ Fail(p)

\* the stores the progress of operations is followed on: the default
\* options or a write in place, the accessor in sloppy mode, and a store
\* without directory, without file, with a document, with an undecodable
\* file
InitLive ==
    /\ InitSteps
    /\ ~libStrict
    /\ opts \in {<<>>, [atomicSave |-> FALSE]}
    /\ file \in {NoFile, Garbage, _prepareSettingsData(Obj(<<"a">> :> Num(1)))}

\* the steps under the assumption that every request pending completes in
\* the end
SpecStepsLive ==
    /\ InitLive /\ [][NextSteps]_vars
    /\ \A p \in Procs : WF_vars(Completes(p))

\* the callback of p has been invoked, once
CalledBack(p) ==
    Done(p) /\ procs[p].how = "callback" /\ procs[p].calls = 1

\* p is not under way: it was never called, or it has ended, and then its
\* callback has been invoked if it is a non-blocking operation whose
\* arguments are valid
Settled(p) ==
    \/ procs[p].pc = "idle"
    \/ /\ Done(p)
       /\ (procs[p].form = "async" /\ ~Misplaced(p) /\ ~ThrownAtOnce(p))
             => CalledBack(p)

\* C23: if every I/O request completes in the end, there comes a moment
\* from which on no operation is under way, and every non-blocking get,
\* has, set or delete that was started with valid arguments has invoked
\* its callback.
C23_RunsToCompletion == <>[](\A p \in Procs : Settled(p))

\* a non-blocking delete went through its five requests while another
\* non-blocking operation ran, and both callbacks have been invoked
C23_Witness ==
    /\ procs[1].op = "delete" /\ procs[1].form = "async" /\ CalledBack(1)
    /\ procs[1].io = <<"statFile", "read", "statDir", "writeTmp", "rename">>
    /\ procs[2].op = "set" /\ CalledBack(2)
    /\ procs[2].before = procs[1].before

-----------------------------------------------------------------------------
(* C24 *)

\* the requests p has issued so far, in order
IO(p) == procs[p].io

\* the request x is among the requests io
Among(io, x) == \E i \in DOMAIN io : io[i] = x

\* every request y in io comes after some request x
Before(io, x, y) ==
    \A j \in DOMAIN io : io[j] = y => \E i \in 1..(j - 1) : io[i] = x

\* every request y in io comes right after a request of xs
RightAfter(io, xs, y) ==
    \A j \in DOMAIN io : io[j] = y => (j > 1 /\ io[j - 1] \in xs)

\* the requests a write begins with
WriteRequests == {"writeTmp", "open"}

\* the operation loads the document: every one but the set whose key path
\* is omitted or empty
Loads(p) == procs[p].op \in {"get", "has", "delete"} \/ Truthy(procs[p].keyPath)

\* C24 as stated: the check of the directory comes before the check of
\* the file, which comes before the read, and a mutating operation writes
\* only after it has read.
C24_DirThenFileThenLoad ==
    \A p \in Procs :
        /\ Before(IO(p), "statDir", "statFile")
        /\ Before(IO(p), "statFile", "read")
        /\ procs[p].op \in {"set", "delete"} =>
              \A w \in WriteRequests : Before(IO(p), "read", w)

\* C24: an operation that loads checks the file first, and nothing before;
\* a missing file is made by a save of the empty object; then comes the
\* read.  A read-only operation ends with the read and saves nothing but
\* that empty object.  A mutating operation that loads saves its document
\* after the read.  Every save checks the directory, makes it if need be,
\* and writes, in that order.  The set whose key path is omitted or empty
\* neither checks the file nor reads it.
C24_FileThenLoadThenSave ==
    \A p \in Procs :
        /\ \A j \in DOMAIN IO(p) : IO(p)[j] = "statFile" => j = 1
        /\ Before(IO(p), "statFile", "read")
        /\ RightAfter(IO(p), {"statDir"}, "mkdir")
        /\ \A w \in WriteRequests : RightAfter(IO(p), {"statDir", "mkdir"}, w)
        /\ RightAfter(IO(p), {"writeTmp"}, "rename")
        /\ RightAfter(IO(p), {"open"}, "writeFile")
        /\ procs[p].op \in {"get", "has"} =>
              /\ \A j \in DOMAIN IO(p) : IO(p)[j] = "read" => j = Len(IO(p))
              /\ \A i \in DOMAIN procs[p].saves : procs[p].saves[i] = EmptyObj
              /\ Succeeded(p) => (IO(p) # <<>> /\ IO(p)[Len(IO(p))] = "read")
        /\ (procs[p].pc # "idle" /\ Loads(p) /\ ~ThrownAtOnce(p)) =>
              /\ IO(p) # <<>> /\ IO(p)[1] = "statFile"
              /\ procs[p].then = "end" => Among(IO(p), "read")
        /\ (procs[p].op \in {"set", "delete"} /\ Succeeded(p)) =>
              /\ IO(p) # <<>>
              /\ IO(p)[Len(IO(p))] \in {"rename", "writeFile"}
        /\ (procs[p].pc # "idle" /\ ~Loads(p)) =>
              ~Among(IO(p), "statFile") /\ ~Among(IO(p), "read")

\* a delete on a store without directory: the file is checked, the empty
\* object is saved (directory checked and made, file written), the file
\* is read, and the document is saved (directory checked, file written)
C24_Witness ==
    /\ Succeeded(1) /\ procs[1].op = "delete" /\ ~procs[1].before.dir
    /\ IO(1) = <<"statFile", "statDir", "mkdir", "writeTmp", "rename",
                 "read", "statDir", "writeTmp", "rename">>

-----------------------------------------------------------------------------
(* C25 *)

\* p is a get or a has, called on a store whose file exists
ReadOnlyOnFile(p) ==
    /\ procs[p].pc # "idle" /\ procs[p].op \in {"get", "has"}
    /\ ~FileMissing(procs[p].before)

\* C25: a get or has, blocking or not, on a store whose settings file
\* exists issues no request but the check of the file and the read, and
\* saves nothing, whatever its arguments and however it ends; run alone, it
\* leaves the file and the directory as they were, and no temporary file.
C25_ReadOnlyWritesNothing ==
    \A p \in Procs :
        ReadOnlyOnFile(p) =>
            /\ procs[p].saves = <<>>
            /\ \A i \in DOMAIN IO(p) : IO(p)[i] \in {"statFile", "read"}
            /\ Alone(p) => /\ FS = procs[p].before
                           /\ \A q \in Procs : tmp[q] = NoFile

\* a non-blocking has('a.b') on {a: {b: 1}} called back with true, having
\* checked and read the file, which is as it was
C25_Witness ==
    /\ ReadOnlyOnFile(1) /\ Alone(1) /\ Succeeded(1)
    /\ procs[1].op = "has" /\ procs[1].form = "async"
    /\ procs[1].args = <<S(<<"a", ".", "b">>)>>
    /\ procs[1].res = Bool(TRUE)
    /\ IO(1) = <<"statFile", "read">>
    /\ file = _prepareSettingsData(Obj(<<"a">> :> Obj(<<"b">> :> Num(1))))
    /\ file = procs[1].before.file

-----------------------------------------------------------------------------
(* C26 *)

\* the segments s are the first segments of t
IsPrefix(s, t) == Len(s) <= Len(t) /\ SubSeq(t, 1, Len(s)) = s

\* neither path is a prefix or an extension of the other
Unrelated(s, t) == ~IsPrefix(s, t) /\ ~IsPrefix(t, s)

\* the key paths the frame of a set or delete is looked at
FramePaths ==
    {S(<<"a">>), S(<<"b">>), S(<<"a", ".", "b">>), S(<<"a", ".", "0">>),
     S(<<"a", "\\", ".", "b">>), S(<<"b", ".", "a">>), S(<<"toString">>)}

\* get(q) and has(q) yield the same on both file system states
ReadsAgree(fs1, fs2, q) ==
    /\ getSync(fs1, <<q>>).err = getSync(fs2, <<q>>).err
    /\ getSync(fs1, <<q>>).val = getSync(fs2, <<q>>).val
    /\ hasSync(fs1, <<q>>).err = hasSync(fs2, <<q>>).err
    /\ hasSync(fs1, <<q>>).val = hasSync(fs2, <<q>>).val

\* the last call is a completed set(p, v)
SetDone ==
    last.op = "set" /\ Completed /\ Len(last.args) = 2 /\ KeyPathCall

\* the reads of every key path that is neither a prefix nor an extension
\* of the key path of the last call are as before the call
FrameKept ==
    \A q \in FramePaths :
        Unrelated(Keys(last.args[1]), Keys(q))
            => ReadsAgree(last.before, FS, q)

\* every proper prefix of the key path of the last call that was missing
\* holds an object with the next segment for its only key
PrefixesMade ==
    LET keys == Keys(last.args[1])
    IN \A n \in 1..(Len(keys) - 1) :
          Lookup(DocOf(last.before), SubSeq(keys, 1, n)) = Undef
              => LET made == Lookup(DocOf(FS), SubSeq(keys, 1, n))
                 IN made.t = "obj" /\ DOMAIN made.o = {keys[n + 1]}

NonEmptyKeyPath == flattenKeyPath(last.args[1]) # <<>>

-----------------------------------------------------------------------------
(* C27 *)

\* the last call is a completed delete(p) on a decodable file
DeleteDone == DeleteCall /\ Completed

\* the reads of every key path that is not an extension of the key path of
\* the last call are as before the call
NonExtensionsKept ==
    \A q \in FramePaths :
        ~IsPrefix(Keys(last.args[1]), Keys(q))
            => ReadsAgree(last.before, FS, q)

\* the value that held the last segment of the key path of the last call
\* is still there
ParentKept ==
    Len(Keys(last.args[1])) > 1
        => Present(DocOf(FS),
                   SubSeq(Keys(last.args[1]), 1, Len(Keys(last.args[1])) - 1))

\* C27 as stated: a completed delete(p) of a path that is not there leaves
\* the stored document as it was, and a completed delete(p) of a path that
\* is there leaves get(q) and has(q) as they were for every q that is not
\* an extension of p, the parent of p remaining present.
C27_DeleteFrameAnyPath ==
    DeleteDone =>
        IF Present(DocOf(last.before), Keys(last.args[1]))
        THEN NonExtensionsKept /\ ParentKept
        ELSE DocOf(FS) = DocOf(last.before)

\* has(q) yields the same as before the last call for every proper prefix
\* q of its key path
PrefixesKept ==
    \A q \in FramePaths :
        (IsPrefix(Keys(q), Keys(last.args[1])) /\ Keys(q) # Keys(last.args[1]))
            => /\ hasSync(last.before, <<q>>).err = hasSync(FS, <<q>>).err
               /\ hasSync(last.before, <<q>>).val = hasSync(FS, <<q>>).val

\* C27: a completed delete(p) of a path that is not there leaves the stored
\* document as it was, and a completed delete(p) of a path that is there
\* leaves get(q) and has(q) as they were for every q that is neither a
\* prefix nor an extension of p, and has(q) as it was for every proper
\* prefix q of p, the parent of p remaining present.
C27_DeleteFrame ==
    DeleteDone =>
        IF Present(DocOf(last.before), Keys(last.args[1]))
        THEN FrameKept /\ PrefixesKept /\ ParentKept
        ELSE DocOf(FS) = DocOf(last.before)

\* delete('a.b') on the document {a: {b: 1}, b: 1}: a is left empty and
\* the b of the document is as it was
C27_Witness ==
    /\ DeleteDone
    /\ last.args = <<S(<<"a", ".", "b">>)>>
    /\ DocOf(last.before) =
          Obj(<<"a">> :> Obj(<<"b">> :> Num(1)) @@ <<"b">> :> Num(1))
    /\ DocOf(FS) = Obj(<<"a">> :> EmptyObj @@ <<"b">> :> Num(1))
    /\ ReadsAgree(last.before, FS, S(<<"b">>))
    /\ ~ReadsAgree(last.before, FS, S(<<"a">>))

-----------------------------------------------------------------------------
(* C28: the key path check on its own *)

\* the most elements of an array handed to the check
MaxElems == 2

\* the arrays of at most MaxElems elements of a set
ArraysOf(X) == {Arr(s) : s \in UNION {[1..n -> X] : n \in 0..MaxElems}}

\* values handed to the check: strings, a number, null, undefined, an
\* object, and arrays of them and of arrays
CheckedValues ==
    LET atoms == {S(<<"a">>), S(<<>>), Num(1), Null, Undef, EmptyObj}
        inner == ArraysOf({S(<<"a">>), Num(1)})
    IN atoms \cup ArraysOf(atoms \cup inner)

InitKeyPath ==
    /\ last \in {[NoCall EXCEPT !.args = <<v>>] : v \in CheckedValues}
    /\ dirExists = FALSE /\ file = NoFile /\ libStrict = FALSE
    /\ hist = "fresh"
    /\ AtRest

\* isKeyPath is applied to the value
CheckKeyPath ==
    /\ last.op = "none"
    /\ last' = [last EXCEPT !.op = "isKeyPath",
                            !.val = Bool(isKeyPath(last.args[1]))]
    /\ UNCHANGED <<dirExists, file, libStrict, hist>>
    /\ UNCHANGED <<stepVars, reference>>

NextKeyPath == CheckKeyPath

SpecKeyPath == InitKeyPath /\ [][NextKeyPath]_vars

\* a value and all that its arrays hold, at any depth
RECURSIVE Parts(_)
Parts(v) ==
    {v} \cup (IF v.t = "arr"
              THEN UNION {Parts(v.a[i]) : i \in 1..Len(v.a)}
              ELSE {})

\* the value is a string, or an array that holds, at any depth, nothing
\* but strings and arrays that are not empty
StringsAllTheWayDown(v) ==
    /\ v.t \in {"str", "arr"}
    /\ \A w \in Parts(v) : w.t = "str" \/ (w.t = "arr" /\ Len(w.a) > 0)

\* C28: the check accepts a value exactly when it is a string or a
\* non-empty array whose elements are, at every depth, strings or non-empty
\* arrays; numbers, objects, null, undefined, the empty array and arrays
\* holding any of these at any depth are rejected.
C28_KeyPathCheckExact ==
    last.op = "isKeyPath"
        => (last.val = Bool(TRUE) <=> StringsAllTheWayDown(last.args[1]))

\* ['a', []], an array with a nested empty array, has been rejected
C28_Witness ==
    /\ last.op = "isKeyPath"
    /\ last.args[1] = Arr(<<S(<<"a">>), Arr(<<>>)>>)
    /\ last.val = Bool(FALSE)

-----------------------------------------------------------------------------
(* C29 *)

\* p is a set called with a value alone, a value that is no key path and
\* that JSON.stringify takes
WholeSet(p) ==
    /\ procs[p].op = "set" /\ Len(procs[p].args) = 1
    /\ ~isKeyPath(procs[p].args[1])
    /\ ~StringifyThrows(procs[p].args[1])

\* C29: a set called with a value alone, run alone and without a failing
\* request on a store whose file cannot be decoded, succeeds in both forms
\* without having looked at or read the file, and the file then decodes to
\* the value.
C29_WholeSetOnUndecodable ==
    \A p \in Procs :
        (/\ Done(p) /\ Alone(p) /\ faults = 0
         /\ WholeSet(p) /\ Undecodable(procs[p].before))
            => /\ Succeeded(p)
               /\ \A i \in DOMAIN procs[p].io :
                      procs[p].io[i] \notin {"statFile", "read"}
               /\ _reconstructSettingsData(file) = ToJSON(procs[p].args[1])

\* a non-blocking set({b: 1}) under the key k1 replaced a file enciphered
\* with another key, and its callback got no error
C29_Witness ==
    /\ Done(1) /\ Alone(1) /\ faults = 0
    /\ WholeSet(1) /\ procs[1].form = "async"
    /\ _config.encryptionKey = "k1"
    /\ procs[1].before.file.kind = "cipher" /\ procs[1].before.file.key = "k2"
    /\ Succeeded(1) /\ procs[1].how = "callback"
    /\ _reconstructSettingsData(file) = Obj(<<"b">> :> Num(1))

-----------------------------------------------------------------------------
(* C30 *)

\* how many of the requests io are among xs
Count(io, xs) == Cardinality({i \in DOMAIN io : io[i] \in xs})

\* how many of the saves of p had a document that JSON.stringify takes
SavesEncoded(p) ==
    Cardinality({i \in DOMAIN procs[p].saves :
                    ~StringifyThrows(procs[p].saves[i])})

\* the last save of p had a document that JSON.stringify throws on
EncodeFailed(p) ==
    /\ procs[p].saves # <<>>
    /\ StringifyThrows(procs[p].saves[Len(procs[p].saves)])

\* the last request of p, the stat or the making of the directory, failed
DirFailed(p) ==
    /\ Done(p) /\ procs[p].err = IOError
    /\ IO(p) # <<>> /\ IO(p)[Len(IO(p))] \in {"statDir", "mkdir"}

\* C30: every save encodes before it asks anything of the storage and
\* checks the directory before it writes: there is one check of the
\* directory for every save that encoded, and every write comes right after
\* the check or the making of the directory; a save whose encoding fails
\* ends the operation with the error surfaced and no request of its own
\* (no directory made, no file written), and after a failed check or making
\* of the directory the save has asked for no write.
C30_EncodeThenDirThenWrite ==
    \A p \in Procs :
        /\ Count(IO(p), {"statDir"}) = SavesEncoded(p)
        /\ \A w \in WriteRequests : RightAfter(IO(p), {"statDir", "mkdir"}, w)
        /\ EncodeFailed(p) =>
              /\ Done(p) /\ procs[p].err = TypeError /\ RightChannel(p)
              /\ IO(p) = <<>> \/ IO(p)[Len(IO(p))] = "read"
              /\ (Alone(p) /\ IO(p) = <<>>) => FS = procs[p].before
        /\ DirFailed(p) =>
              Count(IO(p), WriteRequests) = Len(procs[p].saves) - 1

\* a non-blocking set of an object that holds itself, on a store without a
\* directory: the callback got the error, and there is neither a directory
\* nor a file
C30_Witness ==
    /\ Done(1) /\ Alone(1) /\ EncodeFailed(1)
    /\ procs[1].op = "set" /\ procs[1].form = "async"
    /\ procs[1].args = <<Circular>>
    /\ ~procs[1].before.dir
    /\ procs[1].err = TypeError /\ procs[1].how = "callback"
    /\ IO(1) = <<>> /\ ~dirExists /\ file = NoFile

\* the making of the directory failed in a set, and no write was asked for
C30_WitnessDirFailed ==
    /\ DirFailed(1) /\ procs[1].op = "set"
    /\ IO(1)[Len(IO(1))] = "mkdir"
    /\ Count(IO(1), WriteRequests) = 0 /\ file = procs[1].before.file

-----------------------------------------------------------------------------
(* C31 *)

\* the step in which a stat of the operation p, of the directory or of the
\* file, fails for another reason than that there is nothing of the name
StatFails(p) ==
    /\ faults' = faults + 1
    /\ procs[p].pc \in {"statDir", "statFile"}

\* nothing is created in the step: no directory, no file content, no save
\* of the empty object, no further request (no mkdir, no read, no write),
\* and the operation is over
NothingCreated(p) ==
    /\ dirExists' = dirExists /\ file' = file
    /\ procs'[p].saves = procs[p].saves
    /\ procs'[p].io = procs[p].io
    /\ procs'[p].pc = "done"

\* the error of the failed request has reached the caller
Propagated(p) == procs'[p].err = IOError /\ RightChannel(p)'

\* C31: when the stat of the directory or of the settings file fails for
\* another reason than that there is nothing of the name, the error is
\* propagated to the caller, and no directory is created, no empty object
\* is saved and no read is attempted.
C31_OnlyMissingCreates ==
    [][\A p \in Procs :
          StatFails(p) => (Propagated(p) /\ NothingCreated(p))]_vars

\* the same holds of every call but those whose first argument is present
\* and no key path, and of these too but for the propagation
OnlyMissingCreatesButMisplaced ==
    [][\A p \in Procs :
          StatFails(p) => /\ ~Misplaced(p) => Propagated(p)
                          /\ NothingCreated(p)]_vars

\* the last request of the operation p, run alone, was the stat and failed
StatFailed(p, stat) ==
    /\ Done(p) /\ Alone(p) /\ faults > 0
    /\ IO(p) # <<>> /\ IO(p)[Len(IO(p))] = stat

\* what the code does instead: the stat of the file of get(1, fn) failed,
\* fn was not invoked and a TypeError went uncaught
StatErrorNeverCallsBack ==
    /\ StatFailed(1, "statFile") /\ MalformedGet(1)
    /\ procs[1].form = "async"
    /\ procs[1].how = "uncaught" /\ procs[1].calls = 0

\* a delete on a store without a directory: the stat of the file found
\* nothing, the stat of the directory failed, and there is no directory
StatDirFailedNothingMade ==
    /\ StatFailed(1, "statDir") /\ procs[1].op = "delete"
    /\ ~procs[1].before.dir /\ ~dirExists /\ file = NoFile
    /\ procs[1].err = IOError

-----------------------------------------------------------------------------
(* C32 *)

\* the step in which a request of the operation p fails, or in which the
\* file p has read turns out not to be decodable
StepFails(p) ==
    /\ Running(p)
    /\ \/ faults' = faults + 1
       \/ /\ procs[p].pc = "read"
          /\ procs'[p].err = DecodeError(file)

\* C32: an operation never retries: the step in which a request fails (or
\* the file read cannot be decoded) ends the operation without a further
\* request, and an operation that has ended issues no request any more.
C32_NoRetry ==
    [][\A p \in Procs :
          /\ StepFails(p) =>
                (procs'[p].pc = "done" /\ procs'[p].io = procs[p].io
                 /\ procs'[p].saves = procs[p].saves)
          /\ Done(p) => procs'[p] = procs[p]]_vars

\* the read of a set('a', 2) failed: the set asked for the stat of the file
\* and the read, once each, and for nothing else
C32_Witness ==
    /\ Done(1) /\ Alone(1) /\ faults = 1
    /\ procs[1].op = "set" /\ procs[1].args = <<S(<<"a">>), Num(2)>>
    /\ procs[1].err = IOError
    /\ IO(1) = <<"statFile", "read">>
    /\ FS = procs[1].before

-----------------------------------------------------------------------------
(* C33: the store beside an in-memory document *)

\* what a call does to an in-memory document and what it answers: the
\* accessor is applied to the document; without a key path get answers the
\* whole document and set replaces it.  whole tells whether the empty key
\* path stands for no key path in a set.
Accessed(doc, op, args, strict, whole) ==
    LET given == isKeyPath(Arg(args, 0))
        keyPath == IF given THEN flattenKeyPath(args[1]) ELSE <<>>
        answer(v) == IF v = Thrown
                     THEN [doc |-> doc, err |-> TypeError, val |-> Undef]
                     ELSE [doc |-> doc, err |-> NoError, val |-> v]
        update(d) == IF d = Thrown
                     THEN [doc |-> doc, err |-> TypeError, val |-> Undef]
                     ELSE [doc |-> d, err |-> NoError, val |-> Undef]
    IN CASE op = "get" ->
              IF given THEN answer(getValueAtKeyPath(doc, keyPath))
              ELSE answer(doc)
         [] op = "has" -> answer(Bool(hasKeyPath(doc, keyPath)))
         [] op = "set" ->
              IF given /\ ~(whole /\ keyPath = <<>>)
              THEN update(setValueAtKeyPath(doc, keyPath, Arg(args, 1), strict))
              ELSE update(Arg(args, IF given THEN 1 ELSE 0))
         [] op = "delete" -> update(deleteValueAtKeyPath(doc, keyPath, strict))

\* the same with the document kept as JSON keeps it
AccessedAsJSON(doc, op, args, strict) ==
    LET out == Accessed(doc, op, args, strict, TRUE)
    IN [out EXCEPT !.doc = ToJSON(@)]

\* the values set beside the in-memory document
ReferenceValues ==
    {Null, Num(1), Obj(<<"b">> :> Num(1)), Arr(<<Num(1)>>)}

\* the calls with arguments the store takes: get with a key path or with
\* nothing, has and delete with a key path, set with a key path and a
\* value, with a key path alone, or with a value that is no key path
ReferenceCalls ==
    [op : {"get"}, args : {a \in GetArgs : a = <<>> \/ isKeyPath(a[1])}]
    \cup [op : {"has", "delete"}, args : {a \in PathArgs : isKeyPath(Arg(a, 0))}]
    \cup [op : {"set"},
          args : {a \in SetArgs : \/ a[Len(a)] \in ReferenceValues
                                   \/ (Len(a) = 1 /\ isKeyPath(a[1]))}]

\* a store that has not been used, beside the empty object
InitReference ==
    /\ dirExists \in BOOLEAN
    /\ file = NoFile
    /\ libStrict \in BOOLEAN
    /\ last = NoCall
    /\ hist = "fresh"
    /\ opts = <<>> /\ procs = <<>> /\ tmp = <<>> /\ faults = 0
    /\ lastWrite = Undef /\ codec = <<>>
    /\ reference = [doc |-> EmptyObj, err |-> NoError, val |-> Undef]

\* the calls of one operation
CallsOf(op) == {c \in ReferenceCalls : c.op = op}

\* a call of the store, made of the in-memory document too
Both(c) ==
    /\ Applied(c.op, c.args, Run(c.op, FS, c.args))
    /\ reference' = AccessedAsJSON(reference.doc, c.op, c.args, libStrict)

BothGet == \E c \in CallsOf("get") : Both(c)

BothHas == \E c \in CallsOf("has") : Both(c)

BothSet == \E c \in CallsOf("set") : Both(c)

BothDelete == \E c \in CallsOf("delete") : Both(c)

NextReference == BothGet \/ BothHas \/ BothSet \/ BothDelete \/ Return

SpecReference == InitReference /\ [][NextReference]_vars

\* the store answers as the in-memory document r does and holds what r
\* holds
LikeDocument(r) ==
    /\ last # NoCall => (last.err = r.err /\ last.val = r.val)
    /\ last # NoCall => (file # NoFile /\ _reconstructSettingsData(file) = r.doc)
    /\ DocOf(FS) = r.doc

\* what the in-memory document that held what the store held before the
\* last call, updated by the accessor alone, answers and holds after it
AccessorAlone ==
    Accessed(DocOf(last.before), last.op, last.args, libStrict, FALSE)

\* C33 as stated: with the calls made one after another and no request
\* failing, every result of the store is the result of an in-memory
\* document that began as {} and is updated by the accessor, and after
\* every call the file decodes to that document.
C33_LikeInMemoryDocument ==
    last # NoCall => LikeDocument(AccessorAlone)

\* C33: the same of an in-memory document that is kept as JSON keeps it
\* after every update, and that a set with the empty key path replaces.
C33_LikeJSONDocument == LikeDocument(reference)

\* after set('a', {b: 1}) and delete('a.b') the file holds {a: {}}, as the
\* in-memory document does
C33_Witness ==
    /\ last.op = "delete" /\ last.args = <<S(<<"a", ".", "b">>)>>
    /\ DocOf(last.before) = Obj(<<"a">> :> Obj(<<"b">> :> Num(1)))
    /\ reference.doc = Obj(<<"a">> :> EmptyObj)
    /\ LikeDocument(reference)

-----------------------------------------------------------------------------
(* C34 *)

\* p is a non-blocking get or has with arguments the store takes that has
\* completed without an error
ReadDone(p) ==
    /\ Succeeded(p) /\ procs[p].form = "async"
    /\ \/ procs[p].op = "get" /\ (procs[p].args = <<>> \/ WithKeyPath(p))
       \/ procs[p].op = "has" /\ WithKeyPath(p)

\* a non-blocking get or has and a non-blocking set were both called on a
\* store without a file, no request failed, and both have completed
ReadBesideSet(p, q) ==
    /\ p # q /\ faults = 0
    /\ ReadDone(p) /\ SetSaved(q) /\ Succeeded(q)
    /\ FileMissing(procs[p].before) /\ FileMissing(procs[q].before)

\* C34: in every interleaving of a non-blocking get or has with a
\* non-blocking set on a store whose file does not exist yet, once both
\* have completed the stored document holds the value the set wrote.
C34_ReadKeepsWhatSetWrote ==
    \A p, q \in Procs :
        ReadBesideSet(p, q) =>
            /\ file # NoFile
            /\ HasUpdate(_reconstructSettingsData(file), q)

\* what the code does instead: get() found no file and went on to save the
\* empty object; set('b', 2) ran from its call to its callback meanwhile;
\* then the write of the empty object was completed, and the file holds {}
BootstrapLandsLast ==
    /\ ReadBesideSet(1, 2)
    /\ procs[1].op = "get" /\ procs[1].args = <<>>
    /\ procs[2].args = <<S(<<"b">>), Num(2)>>
    /\ _config.atomicSave
    /\ procs[1].res = EmptyObj
    /\ file = _prepareSettingsData(EmptyObj)

-----------------------------------------------------------------------------
(* C35: callbacks that throw *)

\* the operation begun with a callback that throws on a result
Throwing(r) == IF r.fn = Fn THEN [r EXCEPT !.fn = FnThrows] ELSE r

\* a caller calls a non-blocking operation with a callback that throws
\* when it is handed a result
StartThrowing(p) ==
    /\ procs[p].pc = "idle" /\ MayStep(p)
    /\ p # 1 => faults = 0
    /\ \E c \in (IF p = 1 THEN StepCalls ELSE OtherCalls) :
          /\ c.form = "async"
          /\ procs' = [procs EXCEPT ![p] =
                          Throwing(Begun(c.op, c.form, c.args, FS))]
    /\ UNCHANGED <<dirExists, file, tmp, faults, lastWrite>>
    /\ UNCHANGED <<libStrict, last, hist, opts, codec, reference>>

NextCallbacks ==
    \E p \in Procs :
        \/ StartThrowing(p) \/ StatFile(p) \/ StatDir(p) \/ Mkdir(p)
        \/ WriteTmp(p) \/ Rename(p) \/ Open(p) \/ WriteFile(p)
        \/ Read(p) \/ Fail(p)

SpecCallbacks == InitSteps /\ [][NextCallbacks]_vars

\* C35: every non-blocking operation invokes its callback at most once,
\* also when the callback throws while it handles a result.
C35_CallbackAtMostOnce ==
    \A p \in Procs : procs[p].calls <= 1

\* what the code does instead: the callback of get() was handed the
\* document, threw, and was invoked a second time with what it had thrown
CalledAgainWithItsException ==
    /\ Done(1) /\ Alone(1) /\ faults = 0
    /\ procs[1].op = "get" /\ procs[1].args = <<>>
    /\ procs[1].fn = FnThrows
    /\ procs[1].res = DocOf(procs[1].before)
    /\ procs[1].calls = 2 /\ procs[1].err = CallbackError

\* the callback of set and delete is invoked once, and every callback at
\* most twice
CalledTwiceByReadsOnly ==
    \A p \in Procs :
        /\ procs[p].calls <= 2
        /\ procs[p].op \in {"set", "delete"} => procs[p].calls <= 1


\* ---------------------------------------------------------------------
\* The empty key path

\* a key path that flattens to the empty string: '' or ['']
EmptyKeyPath(k) == isKeyPath(k) /\ flattenKeyPath(k) = <<>>

\* the last call was op with an empty key path first
EmptyPathCall(op) ==
    /\ last.op = op
    /\ Len(last.args) >= 1
    /\ EmptyKeyPath(last.args[1])

\* what the call without a key path would have answered and left
Unkeyed(out) ==
    /\ last.err = out.err
    /\ last.val = (IF out.err = NoError THEN out.val ELSE Undef)
    /\ last.saves = out.saves
    /\ FS = [dir |-> out.dir, file |-> out.file]

\* C36: get and set take a key path that flattens to the empty string
\* ('' or ['']) as no key path: get('') answers what get() answers, the
\* whole document; set('', v) does what saving v as the document does, and
\* afterwards the file holds v and none of the keys stored before.
C36_EmptyKeyPathIsNoKeyPath ==
    /\ EmptyPathCall("get") =>
          /\ Unkeyed(getSync(last.before, <<>>))
          /\ Decodable(last.before) =>
                (last.err = NoError /\ last.val = DocOf(last.before))
    /\ (EmptyPathCall("set") /\ Len(last.args) = 2) =>
          /\ Unkeyed(_setValueAtKeyPathSync(last.before, Null, last.args[2], libStrict))
          /\ last.err = NoError
          /\ file # NoFile
          /\ _reconstructSettingsData(file) = last.args[2]

\* set([''], 1) on a store that held {a: {b: 'b'}} left 1 as the document
C36_Witness ==
    /\ last.op = "set"
    /\ last.args = <<Arr(<<S(<<>>)>>), Num(1)>>
    /\ DocOf(last.before) = Obj(<<"a">> :> Obj(<<"b">> :> S(<<"b">>)))
    /\ DocOf(FS) = Num(1)

\* get('') answered the whole document {a: {b: 'b'}}
C36_WitnessGet ==
    /\ last.op = "get"
    /\ last.args = <<S(<<>>)>>
    /\ last.val = Obj(<<"a">> :> Obj(<<"b">> :> S(<<"b">>)))


\* ---------------------------------------------------------------------
\* The configuration and the path of the settings file

\* app.getPath('userData'): the directory Electron gives the application
userData == <<"userData">>

\* path.join of a directory and a file name
PathJoin(dir, fileName) == dir \o <<"/">> \o fileName

\* the directory configured, or else the user data directory
_getSettingsDirPath ==
    IF Truthy(_config.dir) THEN _config.dir.s ELSE userData

_getSettingsFilePath == PathJoin(_getSettingsDirPath, _config.fileName.s)

\* the options of the stores whose path is asked for
FileConfigs ==
    {<<>>,
     [dir |-> S(<<"d">>)],
     [dir |-> S(<<>>)],
     [fileName |-> S(<<"foo.json">>)],
     [dir |-> S(<<"d">>), fileName |-> S(<<"foo.json">>)],
     [dir |-> S(<<"d">>), prettify |-> TRUE, atomicSave |-> FALSE]}

\* a store constructed with one of these options, not yet used
InitFile ==
    /\ dirExists \in BOOLEAN
    /\ file = NoFile
    /\ libStrict \in BOOLEAN
    /\ last = NoCall
    /\ hist = "fresh"
    /\ opts \in FileConfigs
    /\ procs = <<>> /\ tmp = <<>> /\ faults = 0
    /\ lastWrite = Undef /\ codec = <<>>
    /\ reference = NoReference

\* a file() that makes sure of the directory before it answers
File_Ensuring ==
    /\ last = NoCall
    /\ last' = Call("file", <<>>,
                    Outcome(FS, NoError, Str(_getSettingsFilePath), <<>>))
    /\ dirExists' = _ensureSettingsDirSync(FS).dir
    /\ UNCHANGED <<file, libStrict, hist>>
    /\ UNCHANGED <<stepVars, reference>>

\* file(): the path of the settings file, computed from the configuration
File ==
    /\ last = NoCall
    /\ last' = Call("file", <<>>,
                    Outcome(FS, NoError, Str(_getSettingsFilePath), <<>>))
    /\ UNCHANGED <<dirExists, file, libStrict, hist>>
    /\ UNCHANGED <<stepVars, reference>>

\* a blocking operation of the store
Operate(c) == Apply(c.op, c.args, Run(c.op, FS, c.args))

OperateGet == \E c \in CallsOf("get") : Operate(c)

OperateHas == \E c \in CallsOf("has") : Operate(c)

OperateSet == \E c \in CallsOf("set") : Operate(c)

OperateDelete == \E c \in CallsOf("delete") : Operate(c)

NextFile ==
    \/ OperateGet \/ OperateHas \/ OperateSet \/ OperateDelete
    \/ File \/ Return

SpecFile == InitFile /\ [][NextFile]_vars

\* this step is a call of file()
FileCalled == last.op # "file" /\ last'.op = "file"

\* C37: no operation changes the configuration (directory, file name,
\* atomic save, prettifying, encryption), so the path file() answers, the
\* directory joined with the file name, is the same before and after every
\* operation; and file() itself answers that path without a storage
\* request: it saves nothing and leaves directory and file as they were.
C37_ConfigurationImmutable ==
    [][/\ _config' = _config
       /\ _getSettingsFilePath' = _getSettingsFilePath
       /\ FileCalled =>
             /\ last'.err = NoError
             /\ last'.val = Str(PathJoin(_getSettingsDirPath, _config.fileName.s))
             /\ last'.saves = <<>>
             /\ dirExists' = dirExists /\ file' = file]_vars

\* file() answered d/foo.json after the store had saved its file, as it
\* would have before
C37_Witness ==
    /\ last.op = "file"
    /\ last.val = Str(<<"d", "/", "foo.json">>)
    /\ hist = "used"
    /\ file # NoFile

\* file() answered on a store never used, and there is still no directory
C37_WitnessNothingMade ==
    /\ last.op = "file"
    /\ last.val = Str(<<"userData", "/", "settings.json">>)
    /\ ~dirExists /\ file = NoFile

====
